---- MODULE Spec2Model ----
(***************************************************************************)
(* Showdown Winrate Checker: the data-acquisition pipeline.                *)
(*                                                                         *)
(* The repository holds the same pipeline three times: the browser app     *)
(* (src/unnamed/part_000: rpcCallWithRetry, findBlockAtOrAfter,            *)
(* findBlockAtOrBefore, buildRanges, fetchLogsBatched, handleRun), the     *)
(* API route (src/pages/api/eth.ts: rpc, the same resolvers and            *)
(* buildRanges, handler) and the page that calls the route (index.tsx,     *)
(* part_001: run).                                                         *)
(*                                                                         *)
(* Block numbers are counted in the model's own unit: MAX_SPAN, 100_000    *)
(* blocks in the source, is scaled down so that ranges of several spans    *)
(* and several batches fit a finite check.                                 *)
(***************************************************************************)
EXTENDS Integers, Sequences, FiniteSets, TLC

VARIABLES
    pc,          \* position of the running function
    fromBlock,   \* argument of buildRanges / fetchLogsBatched
    toBlock,     \* argument of buildRanges / fetchLogsBatched
    ranges,      \* the span list built by buildRanges
    \* the chain behind the endpoint
    chainTs,     \* block number -> timestamp, for the blocks the chain holds
    \* findBlockAtOrAfter / findBlockAtOrBefore
    op,          \* "after" or "before": which resolver runs
    targetTs,    \* its argument
    earliest,    \* the block fetched for tag "earliest"
    latest,      \* the block fetched for tag "latest"
    lo,          \* binary search, lower end
    hi,          \* binary search, upper end
    result,      \* the block number returned
    nProbes,     \* getBlockByNumber calls made so far
    lookups,     \* the block lookups made so far, with their outcomes
    \* rpc / rpcCallWithRetry
    attempts,    \* its parameter (5 by default)
    i,           \* the loop index: the attempt number, from 0
    lastErr,     \* the error caught last
    rpcResult,   \* the parsed body it returned
    thrown,      \* the error an RPC call of this run threw
    nRequests,   \* fetch() calls made by this call so far
    lastOutcome, \* what the endpoint did on the latest attempt
    body,        \* its parameter: the request, or the array of requests
    posted,      \* the body the latest fetch() call carried
    baseDelay,   \* argument baseDelay of the RPC call, in milliseconds
    delays,      \* the sleeps of the RPC call so far
    \* the endpoint's logs
    chainLogs,   \* the logs the contract has emitted
    endpoint,    \* "faithful": answers eth_getLogs with the logs of the span;
                 \* "sloppy": may repeat logs or hand out logs of other spans
    nSloppy,     \* answers so far that were not the logs of the span
    \* fetchLogsBatched / the fetch loop of handler
    variant,     \* "browser" (handleRun) or "api" (handler, called by run)
    batchSize,   \* spans per batch call
    delayMs,     \* pause between two batches
    fi,          \* the loop index i of the batch loop
    allLogs,     \* the logs collected from the batch responses
    sent,        \* the batch calls issued so far, each the spans it asked for
    nSleeps,     \* inter-batch pauses taken so far
    progress,    \* the {done, total} last reported through onProgress
    logs,        \* the deduplicated logs
    reports,     \* the onProgress calls made so far, each its (done, total)
    \* the page and the route
    rows,        \* React state rows
    error,       \* React state error
    loading,     \* React state loading
    response,    \* what handler answered
    \* handleRun / handler
    startTs,     \* toStartOfDayEpoch(startDate): a number, or undefined
    endTs,       \* toEndOfDayEpoch(endDate): a number, or undefined
    stage,       \* which await of the run the resolver or the lookup serves
    runEarliest, \* const earliest of the run
    runLatest,   \* const latest of the run
    searched,    \* the resolvers the run has called
    cancelRequested, \* the caller of the run has asked it to stop
    \* the aggregator
    player,      \* React state player
    stats,       \* the memoised {wins, losses, total, winrate}
    filtered,    \* the memoised view of the player's matches
    \* the two number fields of the page
    uiBatchSize, \* React state batchSize: a number, or NaN
    uiDelayMs    \* React state delayMs: a number, or NaN

rangeVars == <<fromBlock, toBlock, ranges>>
resolverVars == <<chainTs, op, targetTs, earliest, latest, lo, hi, result, nProbes, lookups>>
rpcVars == <<attempts, i, lastErr, rpcResult, thrown, nRequests, lastOutcome, body, posted,
             baseDelay, delays>>
chainVars == <<chainLogs, endpoint, nSloppy>>
fetchVars == <<variant, batchSize, delayMs, fi, allLogs, sent, nSleeps, progress, logs, reports>>
uiVars == <<rows, error, loading, response>>
pipelineVars == <<chainVars, fetchVars, uiVars>>
runVars == <<startTs, endTs, stage, runEarliest, runLatest, searched, cancelRequested>>
statsVars == <<player, stats, filtered, uiBatchSize, uiDelayMs>>
vars == <<pc, rangeVars, resolverVars, rpcVars, pipelineVars, runVars, statsVars>>

(***************************************************************************)
(* Bounds and program constants                                            *)
(***************************************************************************)
\* MAX_SPAN / MAX_BLOCK_SPAN (100_000 in the source), scaled
MAX_SPAN == 3
\* largest block number handed to buildRanges
MaxBlock == 10
\* the chain of the resolver holds blocks EarliestNum..LatestNum within 0..MaxChain
MaxChain == 4
\* its first block is numbered 0..MaxEarliest
MaxEarliest == 1
\* block timestamps are 0..MaxTs, targets 0..MaxTs + 1
MaxTs == 2
\* attempts = 5, the default of rpc / rpcCallWithRetry, which no caller overrides
DefaultAttempts == 5
\* baseDelay = 200 in rpc (route), baseDelay = 350 in rpcCallWithRetry
\* (browser), in milliseconds
BaseDelayRoute == 200
BaseDelayBrowser == 350
\* Math.random() * 120: the jitter lies in [0, JitterSpan) milliseconds
JitterSpan == 120
\* a batch response of the RPC specification holds at most MaxItems elements
MaxItems == 2
\* BATCH = 8, the batch size of the API route
BATCH == 8
\* the browser app clamps its batch size to 1..MaxBatchSize
MaxBatchSize == 8
\* the default pause between batches of the browser app
DefaultDelayMs == 400
\* fetches start at a block in 0..MaxFetchFrom and end at a block up to
\* MaxFetchBlock: more than BATCH spans fit
MaxFetchFrom == 1
MaxFetchBlock == 26
\* a sloppy endpoint is asked for ranges that end at MaxSloppyBlock at most,
\* and gives at most MaxSloppy answers that are not the logs of the span
MaxSloppyBlock == 8
MaxSloppy == 2
\* the run specification: the chain holds blocks 0..n for an n up to
\* MaxRunBlock, with timestamps 1..MaxTs
MaxRunBlock == 3
\* the specification of the two number fields: the block range is [0, 0]
\* or [0, MaxKnobBlock]
MaxKnobBlock == 26
\* the aggregator specification: player names of up to MaxNameLen
\* characters, up to MaxStatRows records
MaxNameLen == 3
MaxStatRows == 2
\* the second player name a player name is compared with has up to
\* MaxOtherLen characters
MaxOtherLen == 2

Min(a, b) == IF a <= b THEN a ELSE b
Max(a, b) == IF a >= b THEN a ELSE b

\* a JavaScript number of the two fields: an integer, or NaN
Num(n) == [nan |-> FALSE, v |-> n]
NaN == [nan |-> TRUE, v |-> 0]

(***************************************************************************)
(* buildRanges: the while loop, one span per iteration                     *)
(***************************************************************************)
\* mutant: the loop stops one block early (while s < toBlock)
RECURSIVE BuildLoop_StopsEarly(_, _, _)
BuildLoop_StopsEarly(s, toB, acc) ==
    IF s < toB
    THEN LET e == Min(s + MAX_SPAN - 1, toB)
         IN  BuildLoop_StopsEarly(e + 1, toB, Append(acc, [from |-> s, to |-> e]))
    ELSE acc

\* mutant: a span ends at s + MAX_SPAN, one block too far
RECURSIVE BuildLoop_SpanTooLong(_, _, _)
BuildLoop_SpanTooLong(s, toB, acc) ==
    IF s <= toB
    THEN LET e == Min(s + MAX_SPAN, toB)
         IN  BuildLoop_SpanTooLong(e + 1, toB, Append(acc, [from |-> s, to |-> e]))
    ELSE acc

RECURSIVE BuildLoop(_, _, _)
BuildLoop(s, toB, acc) ==
    IF s <= toB
    THEN LET e == Min(s + MAX_SPAN - 1, toB)
         IN  BuildLoop(e + 1, toB, Append(acc, [from |-> s, to |-> e]))
    ELSE acc

buildRanges(fromB, toB) == BuildLoop(fromB, toB, <<>>)

(***************************************************************************)
(* The chain and getBlockByTag                                             *)
(***************************************************************************)
NoBlock == [num |-> -1, ts |-> -1]

EarliestNum == CHOOSE n \in DOMAIN chainTs : \A m \in DOMAIN chainTs : n <= m
LatestNum == CHOOSE n \in DOMAIN chainTs : \A m \in DOMAIN chainTs : n >= m

\* the block an answered eth_getBlockByNumber carries: {num, ts}
BlockAt(n) == [num |-> n, ts |-> chainTs[n]]

\* the outcomes of one getBlockByTag call: the block, or a throw (the RPC
\* call ran out of attempts, or the answer carried no block)
LookupOutcomes == {"block", "throw"}

\* a call of getBlockByTag (n is -1) or getBlockByNumber, and whether it
\* returned a block
Lookup(tag, n, out) == [tag |-> tag, num |-> n, ok |-> out = "block"]

ResolverIdle ==
    /\ chainTs = <<>>
    /\ op = "none"
    /\ targetTs = 0
    /\ earliest = NoBlock
    /\ latest = NoBlock
    /\ lo = 0
    /\ hi = 0
    /\ result = -1
    /\ nProbes = 0
    /\ lookups = <<>>

(***************************************************************************)
(* The endpoint as rpc / rpcCallWithRetry sees it: what one fetch() does   *)
(***************************************************************************)
\* the `error` member of a JSON-RPC response object: absent, an error
\* object without a message, or an error object with a message
ErrorFields == {"absent", "nomsg", "limit exceeded"}

\* the HTTP statuses told apart by the code: 2xx, 429, 5xx and the other
\* non-2xx ones
Statuses == {200, 404, 429, 503}

NoBody == [t |-> "none", items |-> <<>>]
\* res.json() rejects: the body is not JSON
InvalidBody == [t |-> "invalid", items |-> <<>>]

\* one response object: its error member, and its result member (for
\* eth_getLogs a list of logs) when hasResult
Item(e, h, r) == [error |-> e, hasResult |-> h, result |-> r]

ObjectBody(it) == [t |-> "object", items |-> <<it>>]
ArrayBody(its) == [t |-> "array", items |-> its]

\* fetch() rejects: no HTTP response at all
NetworkError == [status |-> 0, body |-> NoBody]
NoOutcome == [status |-> -1, body |-> NoBody]

NoErr == "none"

\* one JSON-RPC request object
Request(m, ps) == [method |-> m, params |-> ps]

\* the `body` argument of rpc / rpcCallWithRetry: one request object or an
\* array of them
SingleRequest(rq) == [t |-> "object", items |-> <<rq>>]
BatchRequest(rqs) == [t |-> "array", items |-> rqs]
NoRequest == [t |-> "none", items |-> <<>>]

RpcIdle ==
    /\ baseDelay = 0
    /\ delays = <<>>
    /\ body = NoRequest
    /\ posted = NoRequest
    /\ attempts = 0
    /\ i = 0
    /\ lastErr = NoErr
    /\ rpcResult = NoBody
    /\ thrown = NoErr
    /\ nRequests = 0
    /\ lastOutcome = NoOutcome

\* handler has not answered: no status, no body
NoResponse ==
    [sent |-> FALSE, status |-> 0, ok |-> FALSE, hasRows |-> FALSE, rows |-> <<>>, error |-> NoErr]

\* e?.message || String(e), for the Error objects the route throws: an
\* Error with an empty message reads "Error"
ErrorText(e) == IF e = "" THEN "Error" ELSE e

\* mutant: an error is answered with HTTP 500
ErrorResponse_Status500(e) ==
    [sent |-> TRUE, status |-> 500, ok |-> FALSE, hasRows |-> FALSE, rows |-> <<>>,
     error |-> ErrorText(e)]

\* res.status(200).json({ ok: false, error: e?.message || String(e) })
ErrorResponse(e) ==
    [sent |-> TRUE, status |-> 200, ok |-> FALSE, hasRows |-> FALSE, rows |-> <<>>,
     error |-> ErrorText(e)]

\* res.status(200).json({ ok: true, rows })
OkResponse(rs) ==
    [sent |-> TRUE, status |-> 200, ok |-> TRUE, hasRows |-> TRUE, rows |-> rs, error |-> NoErr]

NoProgress == [done |-> 0, total |-> 0]

FetchIdle ==
    /\ chainLogs = {}
    /\ endpoint = "none"
    /\ nSloppy = 0
    /\ variant = "none"
    /\ batchSize = 0
    /\ delayMs = 0
    /\ fi = 0
    /\ allLogs = <<>>
    /\ sent = <<>>
    /\ nSleeps = 0
    /\ progress = NoProgress
    /\ logs = <<>>
    /\ reports = <<>>

PipelineIdle ==
    /\ FetchIdle
    /\ rows = <<>>
    /\ error = NoErr
    /\ loading = FALSE
    /\ response = NoResponse

\* what toStartOfDayEpoch / toEndOfDayEpoch hand over: undefined for an
\* empty or invalid date, the epoch seconds otherwise
Undefined == [present |-> FALSE, ts |-> 0]
Epoch(t) == [present |-> TRUE, ts |-> t]

RunIdle ==
    /\ startTs = Undefined
    /\ endTs = Undefined
    /\ stage = "none"
    /\ runEarliest = NoBlock
    /\ runLatest = NoBlock
    /\ searched = {}
    /\ cancelRequested = FALSE

NoStats == [wins |-> 0, losses |-> 0, total |-> 0, winrate |-> <<0, 1>>]

StatsIdle ==
    /\ player = <<>>
    /\ stats = NoStats
    /\ filtered = <<>>
    /\ uiBatchSize = Num(2)
    /\ uiDelayMs = Num(DefaultDelayMs)

(***************************************************************************)
(* Specification SpecRanges: buildRanges applied to every pair of blocks   *)
(***************************************************************************)
InitRanges ==
    /\ pc = "ranges"
    /\ fromBlock \in 0..MaxBlock
    /\ toBlock \in 0..MaxBlock
    /\ ranges = <<>>
    /\ ResolverIdle
    /\ RpcIdle
    /\ PipelineIdle
    /\ RunIdle
    /\ StatsIdle

CallBuildRanges ==
    /\ pc = "ranges"
    /\ ranges' = buildRanges(fromBlock, toBlock)
    /\ pc' = "rangesDone"
    /\ UNCHANGED <<runVars, statsVars, fromBlock, toBlock, resolverVars, rpcVars, pipelineVars>>

NextRanges == CallBuildRanges

SpecRanges == InitRanges /\ [][NextRanges]_vars

(***************************************************************************)
(* C1: for fromBlock <= toBlock the spans are ascending, the first starts  *)
(* at fromBlock, the last ends at toBlock, each following span starts at   *)
(* previous.to + 1, and every block of [fromBlock, toBlock] lies in        *)
(* exactly one span.                                                       *)
(***************************************************************************)
SpansOf(b) == {k \in 1..Len(ranges) : ranges[k].from <= b /\ b <= ranges[k].to}

C1_RangesCoverExactly ==
    (pc = "rangesDone" /\ fromBlock <= toBlock) =>
        /\ Len(ranges) >= 1
        /\ ranges[1].from = fromBlock
        /\ ranges[Len(ranges)].to = toBlock
        /\ \A k \in 1..(Len(ranges) - 1) : ranges[k + 1].from = ranges[k].to + 1
        /\ \A b \in fromBlock..toBlock : Cardinality(SpansOf(b)) = 1
        /\ \A b \in 0..(MaxBlock + MAX_SPAN) :
               (b < fromBlock \/ b > toBlock) => SpansOf(b) = {}

C1_Witness ==
    /\ pc = "rangesDone"
    /\ fromBlock < toBlock
    /\ Len(ranges) >= 3
    /\ ranges[Len(ranges)].to - ranges[Len(ranges)].from < MAX_SPAN - 1

(***************************************************************************)
(* C2: every span has from <= to and to - from < MAX_SPAN.                 *)
(***************************************************************************)
C2_SpanBounded ==
    \A k \in 1..Len(ranges) :
        /\ ranges[k].from <= ranges[k].to
        /\ ranges[k].to - ranges[k].from < MAX_SPAN

C2_Witness ==
    /\ pc = "rangesDone"
    /\ Len(ranges) >= 2
    /\ \E k \in 1..Len(ranges) : ranges[k].to - ranges[k].from = MAX_SPAN - 1

(***************************************************************************)
(* findBlockAtOrAfter / findBlockAtOrBefore                                *)
(***************************************************************************)
NoClamp == -1

\* mutant: the first degenerate test is strict (targetTs < earliest.ts)
ClampAfter_Strict(t, ear, lat) ==
    IF t < ear.ts THEN ear.num
    ELSE IF t > lat.ts THEN lat.num
    ELSE NoClamp

\* the two early returns of findBlockAtOrAfter
ClampAfter(t, ear, lat) ==
    IF t <= ear.ts THEN ear.num
    ELSE IF t > lat.ts THEN lat.num
    ELSE NoClamp

\* the two early returns of findBlockAtOrBefore
ClampBefore(t, ear, lat) ==
    IF t < ear.ts THEN ear.num
    ELSE IF t >= lat.ts THEN lat.num
    ELSE NoClamp

\* mutant: the probe is the lower end of the interval
MidAfter_LowerEnd(l, h) == l

\* const mid = Math.floor((lo + hi) / 2), and the upper middle
\* Math.floor((lo + hi + 1) / 2) of findBlockAtOrBefore
MidAfter(l, h) == l + ((h - l) \div 2)
MidBefore(l, h) == l + ((h - l + 1) \div 2)

\* mutant: the comparison is strict (b.ts > targetTs)
StepAfter_Strict(l, h, mid, bts, t) ==
    IF bts > t THEN <<l, mid>> ELSE <<mid + 1, h>>

\* one iteration of the loop of findBlockAtOrAfter: the new <<lo, hi>>
StepAfter(l, h, mid, bts, t) ==
    IF bts >= t THEN <<l, mid>> ELSE <<mid + 1, h>>

\* mutant: the comparison is strict (b.ts < targetTs)
StepBefore_Strict(l, h, mid, bts, t) ==
    IF bts < t THEN <<mid, h>> ELSE <<l, mid - 1>>

\* one iteration of the loop of findBlockAtOrBefore: the new <<lo, hi>>
StepBefore(l, h, mid, bts, t) ==
    IF bts <= t THEN <<mid, h>> ELSE <<l, mid - 1>>

InitResolver ==
    /\ pc = "getEarliest"
    /\ \E e \in 0..MaxEarliest : \E l \in e..MaxChain :
           chainTs \in [e..l -> 0..MaxTs]
    /\ op \in {"after", "before"}
    /\ targetTs \in 0..(MaxTs + 1)
    /\ earliest = NoBlock
    /\ latest = NoBlock
    /\ lo = 0
    /\ hi = 0
    /\ result = -1
    /\ nProbes = 0
    /\ lookups = <<>>
    /\ fromBlock = 0
    /\ toBlock = 0
    /\ ranges = <<>>
    /\ RpcIdle
    /\ PipelineIdle
    /\ RunIdle
    /\ StatsIdle

\* const earliest = await getEarliest(url)
ResolveGetEarliest ==
    /\ pc = "getEarliest"
    /\ \E out \in LookupOutcomes :
         /\ lookups' = Append(lookups, Lookup("earliest", -1, out))
         /\ IF out = "block"
            THEN /\ earliest' = BlockAt(EarliestNum)
                 /\ pc' = "getLatest"
            ELSE /\ pc' = "resolveThrown"
                 /\ UNCHANGED earliest
    /\ UNCHANGED <<runVars, statsVars, rangeVars, rpcVars, pipelineVars, chainTs, op, targetTs, latest, lo, hi, result, nProbes>>

\* the loop test after an assignment of lo and hi: leave with lo, or go on
\* to the next probe
LoopOrReturn(l, h) ==
    /\ lo' = l
    /\ hi' = h
    /\ IF l < h
       THEN pc' = "probe" /\ UNCHANGED result
       ELSE pc' = "resolved" /\ result' = l

\* const latest = await getLatest(url); the early returns; let lo, hi
ResolveGetLatest ==
    /\ pc = "getLatest"
    /\ \E out \in LookupOutcomes :
         /\ lookups' = Append(lookups, Lookup("latest", -1, out))
         /\ IF out = "block"
            THEN LET lat == BlockAt(LatestNum)
                     c == IF op = "after" THEN ClampAfter(targetTs, earliest, lat)
                          ELSE ClampBefore(targetTs, earliest, lat)
                 IN  /\ latest' = lat
                     /\ IF c # NoClamp
                        THEN /\ result' = c
                             /\ pc' = "resolved"
                             /\ UNCHANGED <<lo, hi>>
                        ELSE LoopOrReturn(earliest.num, lat.num)
            ELSE /\ pc' = "resolveThrown"
                 /\ UNCHANGED <<latest, lo, hi, result>>
    /\ UNCHANGED <<runVars, statsVars, rangeVars, rpcVars, pipelineVars, chainTs, op, targetTs, earliest, nProbes>>

\* const b = await getBlockByNumber(url, mid); the narrowing; the loop test
ResolveProbe ==
    /\ pc = "probe"
    /\ nProbes' = nProbes + 1
    /\ \E out \in LookupOutcomes :
         LET mid == IF op = "after" THEN MidAfter(lo, hi) ELSE MidBefore(lo, hi)
         IN  /\ lookups' = Append(lookups, Lookup("number", mid, out))
             /\ IF out = "block"
                THEN LET b == BlockAt(mid)
                         n == IF op = "after" THEN StepAfter(lo, hi, mid, b.ts, targetTs)
                              ELSE StepBefore(lo, hi, mid, b.ts, targetTs)
                     IN  LoopOrReturn(n[1], n[2])
                ELSE /\ pc' = "resolveThrown"
                     /\ UNCHANGED <<lo, hi, result>>
    /\ UNCHANGED <<runVars, statsVars, rangeVars, rpcVars, pipelineVars, chainTs, op, targetTs, earliest, latest>>

NextResolver == ResolveGetEarliest \/ ResolveGetLatest \/ ResolveProbe

SpecResolver == InitResolver /\ [][NextResolver]_vars

Monotone == \A a, b \in DOMAIN chainTs : a < b => chainTs[a] <= chainTs[b]

Blocks == DOMAIN chainTs

(***************************************************************************)
(* C3: on a monotone chain and earliest.ts < targetTs <= latest.ts,        *)
(* findBlockAtOrAfter returns the smallest block number whose timestamp    *)
(* is >= targetTs, ties included.                                          *)
(***************************************************************************)
C3_AtOrAfterIsSmallest ==
    (/\ pc = "resolved"
     /\ op = "after"
     /\ Monotone
     /\ earliest.ts < targetTs
     /\ targetTs <= latest.ts) =>
        /\ result \in Blocks
        /\ chainTs[result] >= targetTs
        /\ \A n \in Blocks : chainTs[n] >= targetTs => result <= n

\* a tie: the block found and its successor carry the same timestamp
C3_Witness ==
    /\ pc = "resolved"
    /\ op = "after"
    /\ Monotone
    /\ earliest.ts < targetTs
    /\ targetTs <= latest.ts
    /\ nProbes >= 2
    /\ result + 1 \in Blocks
    /\ chainTs[result + 1] = chainTs[result]
    /\ chainTs[result] = targetTs

(***************************************************************************)
(* C4: on a monotone chain and targetTs >= earliest.ts,                    *)
(* findBlockAtOrBefore returns the largest block number whose timestamp    *)
(* is <= targetTs, ties included.                                          *)
(***************************************************************************)
C4_AtOrBeforeIsLargest ==
    (/\ pc = "resolved"
     /\ op = "before"
     /\ Monotone
     /\ targetTs >= earliest.ts) =>
        /\ result \in Blocks
        /\ chainTs[result] <= targetTs
        /\ \A n \in Blocks : chainTs[n] <= targetTs => result >= n

C4_Witness ==
    /\ pc = "resolved"
    /\ op = "before"
    /\ Monotone
    /\ targetTs >= earliest.ts
    /\ targetTs < latest.ts
    /\ nProbes >= 2
    /\ result - 1 \in Blocks
    /\ chainTs[result - 1] = chainTs[result]
    /\ chainTs[result] = targetTs

(***************************************************************************)
(* C5: out-of-range targets clamp and do not fail: findBlockAtOrAfter      *)
(* returns earliest.number for targetTs <= earliest.ts and latest.number   *)
(* for targetTs > latest.ts; findBlockAtOrBefore returns earliest.number   *)
(* for targetTs < earliest.ts and latest.number for targetTs >= latest.ts; *)
(* no block-by-number fetch is made.                                       *)
(***************************************************************************)
TagsFetched == earliest # NoBlock /\ latest # NoBlock

C5_OutOfRangeClamps ==
    (TagsFetched /\ Monotone) =>
        /\ (op = "after" /\ targetTs <= earliest.ts) =>
               (pc = "resolved" /\ result = earliest.num /\ nProbes = 0)
        /\ (op = "after" /\ targetTs > latest.ts) =>
               (pc = "resolved" /\ result = latest.num /\ nProbes = 0)
        /\ (op = "before" /\ targetTs < earliest.ts) =>
               (pc = "resolved" /\ result = earliest.num /\ nProbes = 0)
        /\ (op = "before" /\ targetTs >= latest.ts) =>
               (pc = "resolved" /\ result = latest.num /\ nProbes = 0)

\* a target equal to earliest.ts on a chain of several blocks
C5_Witness ==
    /\ pc = "resolved"
    /\ op = "after"
    /\ Monotone
    /\ targetTs = earliest.ts
    /\ earliest.num < latest.num
    /\ earliest.ts < latest.ts
    /\ result = earliest.num

(***************************************************************************)
(* rpc / rpcCallWithRetry                                                  *)
(***************************************************************************)
ResOk(status) == status >= 200 /\ status <= 299

\* `RPC HTTP ${res.status}`, for the statuses of Statuses
HttpError(status) ==
    CASE status = 429 -> "RPC HTTP 429"
      [] status = 503 -> "RPC HTTP 503"
      [] status = 404 -> "RPC HTTP 404"
      [] OTHER -> "RPC HTTP 200"

\* itemErr.error?.message || fallback
MessageOr(e, fallback) == IF e = "nomsg" THEN fallback ELSE e

\* mutant: only the first element is looked at (json[0] && json[0].error)
FirstItemErr_HeadOnly(items) ==
    IF Len(items) >= 1 /\ items[1].error # "absent" THEN 1 ELSE 0

\* json.find(x => x && x.error): the index of the first element with an
\* error, 0 when there is none
FirstItemErr(items) ==
    IF \E k \in 1..Len(items) : items[k].error # "absent"
    THEN CHOOSE k \in 1..Len(items) :
             /\ items[k].error # "absent"
             /\ \A m \in 1..(k - 1) : items[m].error = "absent"
    ELSE 0

Return(j) == [kind |-> "return", value |-> j, err |-> NoErr]
Throw(e) == [kind |-> "throw", value |-> NoBody, err |-> e]

\* the body of the try block: what one attempt does with the endpoint's
\* outcome o, return the parsed body or throw
Classify(o) ==
    IF o.status = 0 THEN Throw("network")
    ELSE IF ~ResOk(o.status) /\ (o.status = 429 \/ (o.status >= 500 /\ o.status < 600))
         THEN Throw(HttpError(o.status))
    ELSE IF o.body.t = "invalid" THEN Throw("json")
    ELSE IF o.body.t = "array"
         THEN IF FirstItemErr(o.body.items) # 0
              THEN Throw(MessageOr(o.body.items[FirstItemErr(o.body.items)].error,
                                   "RPC batch error"))
              ELSE Return(o.body)
    ELSE IF o.body.items[1].error # "absent"
         THEN Throw(MessageOr(o.body.items[1].error, "RPC error"))
    ELSE Return(o.body)

\* mutant: one attempt too many (i <= attempts)
LoopTest_OneMore(k, n) == k <= n

\* the test of the for loop
LoopTest(k, n) == k < n

\* mutant: the first error is kept (lastErr = lastErr || e)
Caught_KeepFirst(prev, e) == IF prev # NoErr THEN prev ELSE e

\* catch (e) { lastErr = e; ... }
Caught(prev, e) == e

\* one attempt: the fetch, the status test, res.json(), the error tests;
\* outcomes is what the endpoint may do with this request
RpcAttemptWith(outcomes) ==
    /\ pc = "rpcAttempt"
    /\ \E o \in outcomes :
         LET c == Classify(o)
         IN  /\ lastOutcome' = o
             /\ posted' = body
             /\ nRequests' = nRequests + 1
             /\ IF c.kind = "return"
                THEN /\ rpcResult' = c.value
                     /\ pc' = "rpcReturned"
                     /\ UNCHANGED lastErr
                ELSE /\ lastErr' = Caught(lastErr, c.err)
                     /\ pc' = "rpcSleep"
                     /\ UNCHANGED rpcResult
    /\ UNCHANGED <<attempts, i, thrown, body, baseDelay, delays>>

\* times are counted in hundredths of a millisecond where they are not
\* whole: baseDelay * Math.pow(1.6, k), which is exact in hundredths for
\* the base delays of the code and k < DefaultAttempts
RECURSIVE Backoff(_, _)
Backoff(base, k) == IF k = 0 THEN base * 100 ELSE (Backoff(base, k - 1) * 16) \div 10

\* Math.round of h hundredths, in whole milliseconds
Round(h) == (h + 50) \div 100

\* the values of Math.random() * 120 the model draws, in hundredths: the
\* smallest and the largest
Jitters == {0, JitterSpan * 100 - 1}

\* const delay = Math.round(baseDelay * Math.pow(1.6, i) + Math.random()*120)
\* for the jitter j: the two summands and the delay
Delay(base, k, j) == [det |-> Backoff(base, k), jitter |-> j, ms |-> Round(Backoff(base, k) + j)]

\* mutant: no sleep after the attempt that was the last one
SleepsAfter_NotLast(k, n) == k + 1 < n

\* the catch block sleeps after every attempt that failed
SleepsAfter(k, n) == TRUE

\* await sleep(delay); i++; the loop test; throw lastErr || new Error(...)
\* the jitter is drawn from J
RpcSleepWith(J) ==
    /\ pc = "rpcSleep"
    /\ \E j \in J :
         delays' = IF SleepsAfter(i, attempts) THEN Append(delays, Delay(baseDelay, i, j))
                   ELSE delays
    /\ i' = i + 1
    /\ IF LoopTest(i + 1, attempts)
       THEN pc' = "rpcAttempt" /\ UNCHANGED thrown
       ELSE /\ pc' = "rpcThrown"
            /\ thrown' = IF lastErr # NoErr THEN lastErr ELSE "RPC failed after retries"
    /\ UNCHANGED <<attempts, lastErr, rpcResult, nRequests, lastOutcome, body, posted, baseDelay>>

\* response bodies of the RPC specification
RpcItems == {Item(e, TRUE, <<>>) : e \in ErrorFields}

RECURSIVE SeqsUpTo(_, _)
SeqsUpTo(S, n) ==
    IF n = 0 THEN {<<>>}
    ELSE LET shorter == SeqsUpTo(S, n - 1)
         IN  shorter \cup {Append(q, x) : q \in shorter, x \in S}

RpcBodies ==
    {InvalidBody} \cup {ObjectBody(it) : it \in RpcItems}
                  \cup {ArrayBody(its) : its \in SeqsUpTo(RpcItems, MaxItems)}

RpcOutcomes == {NetworkError} \cup [status : Statuses, body : RpcBodies]

\* the requests of the RPC specification: a block lookup, and a batch of
\* two eth_getLogs requests
RpcRequests ==
    {SingleRequest(Request("eth_getBlockByNumber", <<"latest">>)),
     BatchRequest(<<Request("eth_getLogs", <<0, 2>>), Request("eth_getLogs", <<3, 5>>)>>)}

InitRpc ==
    /\ pc = "rpcAttempt"
    /\ attempts \in 1..DefaultAttempts
    /\ i = 0
    /\ lastErr = NoErr
    /\ rpcResult = NoBody
    /\ thrown = NoErr
    /\ nRequests = 0
    /\ lastOutcome = NoOutcome
    /\ body \in RpcRequests
    /\ posted = NoRequest
    /\ baseDelay \in {BaseDelayRoute, BaseDelayBrowser}
    /\ delays = <<>>
    /\ fromBlock = 0
    /\ toBlock = 0
    /\ ranges = <<>>
    /\ ResolverIdle
    /\ PipelineIdle
    /\ RunIdle
    /\ StatsIdle

RpcAttempt ==
    RpcAttemptWith(RpcOutcomes) /\ UNCHANGED <<runVars, statsVars, rangeVars, resolverVars, pipelineVars>>

RpcBackoff == RpcSleepWith(Jitters) /\ UNCHANGED <<runVars, statsVars, rangeVars, resolverVars, pipelineVars>>

NextRpc == RpcAttempt \/ RpcBackoff

SpecRpc == InitRpc /\ [][NextRpc]_vars

(***************************************************************************)
(* C9: an RPC call whose every attempt fails performs exactly `attempts`   *)
(* HTTP requests, no more and no fewer, and then throws the error of the   *)
(* last attempt.                                                           *)
(***************************************************************************)
C9_ExhaustionAfterExactlyAttempts ==
    /\ nRequests <= attempts
    /\ pc = "rpcThrown" =>
           /\ nRequests = attempts
           /\ Classify(lastOutcome).kind = "throw"
           /\ thrown = Classify(lastOutcome).err
    /\ (pc = "rpcSleep" /\ i + 1 < attempts) => nRequests < attempts

\* the default five attempts, the last one answered by HTTP 5xx
C9_Witness ==
    /\ pc = "rpcThrown"
    /\ attempts = DefaultAttempts
    /\ nRequests = DefaultAttempts
    /\ lastOutcome.status = 503
    /\ thrown = "RPC HTTP 503"

(***************************************************************************)
(* C10: a response is returned to the caller only if the HTTP status of    *)
(* that attempt was 2xx and the parsed body carries no error field (single *)
(* response) or no element with an error field (batch response).           *)
(***************************************************************************)
NoErrorField(j) == \A k \in 1..Len(j.items) : j.items[k].error = "absent"

C10_ReturnsOnly2xxWithoutError ==
    pc = "rpcReturned" =>
        /\ ResOk(lastOutcome.status)
        /\ NoErrorField(lastOutcome.body)
        /\ rpcResult = lastOutcome.body

\* the conditions the retry is for: no HTTP response, HTTP 429, HTTP 5xx,
\* an error member in the response object or in an element of the array
Transient(o) ==
    \/ o.status = 0
    \/ o.status = 429
    \/ o.status >= 500 /\ o.status <= 599
    \/ o.body.t \in {"object", "array"} /\ ~NoErrorField(o.body)

\* an attempt that succeeded: HTTP 2xx and a JSON body without error member
AttemptSucceeded(o) ==
    /\ ResOk(o.status)
    /\ o.body.t \in {"object", "array"}
    /\ NoErrorField(o.body)

(***************************************************************************)
(* C11: an attempt that meets a transient condition (HTTP 429, HTTP 5xx,   *)
(* a network exception, a JSON-RPC error member in the single response or  *)
(* in any element of a batch response) is not returned; when it was not    *)
(* the last attempt, another attempt follows, carrying the same request    *)
(* body. An attempt that succeeds ends the call: its response is returned  *)
(* and no further request is issued.                                       *)
(***************************************************************************)
C11_TransientRetriedSuccessReturned ==
    [][/\ (pc = "rpcAttempt" /\ Transient(lastOutcome'))
            => (pc' = "rpcSleep" /\ posted' = body)
       /\ (pc = "rpcSleep" /\ i < attempts - 1)
            => (pc' = "rpcAttempt" /\ i' = i + 1 /\ body' = body)
       /\ (pc = "rpcAttempt" /\ i > 0) => posted' = posted
       /\ (pc = "rpcAttempt" /\ AttemptSucceeded(lastOutcome'))
            => (pc' = "rpcReturned" /\ rpcResult' = lastOutcome'.body)
       /\ pc = "rpcReturned" => nRequests' = nRequests]_vars

\* a batch call answered at its third attempt, after an error in the second
\* element of the previous answer
C11_Witness ==
    /\ pc = "rpcReturned"
    /\ body.t = "array"
    /\ posted = body
    /\ nRequests = 3
    /\ i = 2
    /\ lastErr = "RPC batch error"
    /\ AttemptSucceeded(lastOutcome)
    /\ rpcResult = lastOutcome.body

(***************************************************************************)
(* Logs, and the endpoint's answers to eth_getLogs                         *)
(***************************************************************************)
\* a raw log: transactionHash, logIndex (parsed), blockNumber (parsed), its
\* topics and data taken together as v, and whether iface.parseLog
\* accepts them
Log(tx, idx, blk, v, ok) == [tx |-> tx, idx |-> idx, blk |-> blk, v |-> v, ok |-> ok]

\* the logs of the contract, in chain order: two logs of one transaction,
\* one that does not decode, one past the first BATCH spans
LogOrder ==
    << Log("a", 0, 1, 1, TRUE), Log("a", 1, 1, 2, TRUE), Log("d", 0, 2, 3, FALSE),
       Log("b", 0, 3, 4, TRUE), Log("c", 0, MAX_SPAN * BATCH + 1, 5, TRUE) >>

LogUniverse == {LogOrder[k] : k \in 1..Len(LogOrder)}

\* the same log with other content: what a sloppy endpoint may hand out
Altered(l) == [l EXCEPT !.v = l.v + 10]

InSpan(l, r) == r.from <= l.blk /\ l.blk <= r.to

\* the logs of span r, in chain order
SpanLogs(r) ==
    LET Test(l) == l \in chainLogs /\ InSpan(l, r)
    IN  SelectSeq(LogOrder, Test)

\* mutant: the chunk is one span short (ranges.slice(i, i + batchSize - 1))
Chunk_Short(rs, k, n) == SubSeq(rs, k + 1, Min(k + n - 1, Len(rs)))

\* chunk = ranges.slice(i, i + batchSize), i counted from 0
Chunk(rs, k, n) == SubSeq(rs, k + 1, Min(k + n, Len(rs)))

FaithfulItems(batch) == [k \in 1..Len(batch) |-> Item("absent", TRUE, SpanLogs(batch[k]))]

\* the attempts that fail: no response, HTTP 429, HTTP 5xx, a JSON-RPC
\* error with a message in the first element of the batch response or one
\* without a message in the last
FailOutcomes(batch) ==
    {NetworkError, [status |-> 429, body |-> InvalidBody], [status |-> 503, body |-> InvalidBody]}
    \cup {[status |-> 200,
           body |-> ArrayBody([FaithfulItems(batch) EXCEPT ![k] = Item("limit exceeded", FALSE, <<>>)])] :
             k \in {m \in DOMAIN batch : m = 1}}
    \cup {[status |-> 200,
           body |-> ArrayBody([FaithfulItems(batch) EXCEPT ![k] = Item("nomsg", FALSE, <<>>)])] :
             k \in {m \in DOMAIN batch : m = Len(batch)}}

\* the answer: every request of the batch gets the logs of its span
FaithfulOutcome(batch) == [status |-> 200, body |-> ArrayBody(FaithfulItems(batch))]

\* what a sloppy endpoint may add to the result of one element: a log it
\* holds (of this span or another one), or one with other content
SloppyExtras == {LogOrder[1], Altered(LogOrder[1]), LogOrder[4]}

\* the logs q from the last to the first
Reverse(q) == [n \in 1..Len(q) |-> q[Len(q) + 1 - n]]

\* a sloppy endpoint may also hand out the logs of a span from the newest
\* to the oldest, answer with a single object, leave the last request of the
\* batch unanswered, or answer it with an element that has neither an error
\* nor a result
SloppyOutcomes(batch) ==
    {[status |-> 200,
      body |-> ArrayBody([FaithfulItems(batch) EXCEPT
                             ![k] = Item("absent", TRUE, Append(SpanLogs(batch[k]), x))])] :
        k \in {1, Len(batch)}, x \in SloppyExtras}
    \cup {[status |-> 200,
           body |-> ArrayBody([FaithfulItems(batch) EXCEPT
                                  ![k] = Item("absent", TRUE, Reverse(SpanLogs(batch[k])))])] :
             k \in {m \in DOMAIN batch : m \in {1, Len(batch)} /\ Len(SpanLogs(batch[m])) >= 2}}
    \cup {[status |-> 200, body |-> ObjectBody(Item("absent", TRUE, <<>>))]}
    \cup {[status |-> 200,
           body |-> ArrayBody(SubSeq(FaithfulItems(batch), 1, k - 1))] :
             k \in {m \in DOMAIN batch : m = Len(batch)}}
    \cup {[status |-> 200,
           body |-> ArrayBody([FaithfulItems(batch) EXCEPT
                                  ![k] = Item("absent", FALSE, <<>>)])] :
             k \in {m \in DOMAIN batch : m = Len(batch)}}

FetchOutcomes(batch) ==
    FailOutcomes(batch) \cup {FaithfulOutcome(batch)}
        \cup (IF endpoint = "sloppy" /\ nSloppy < MaxSloppy THEN SloppyOutcomes(batch) ELSE {})

(***************************************************************************)
(* Deduplication, decoding, sorting                                        *)
(***************************************************************************)
\* mutant: the key is the transaction hash alone
Key_TxOnly(l) == <<l.tx, 0>>

\* `${log.transactionHash}-${parseInt(log.logIndex, 16)}`
Key(l) == <<l.tx, l.idx>>

\* mutant: a key set again moves to the end of the Map
MapSet_MoveToEnd(m, l) ==
    IF \E n \in 1..Len(m) : Key(m[n]) = Key(l)
    THEN LET Other(x) == Key(x) # Key(l) IN Append(SelectSeq(m, Other), l)
    ELSE Append(m, l)

\* uniq.set(key, log) on a Map kept as its entries in insertion order: a
\* known key keeps its place and takes the new value
MapSet(m, l) ==
    IF \E n \in 1..Len(m) : Key(m[n]) = Key(l)
    THEN [n \in 1..Len(m) |-> IF Key(m[n]) = Key(l) THEN l ELSE m[n]]
    ELSE Append(m, l)

RECURSIVE DedupFrom(_, _, _)
DedupFrom(all, k, m) ==
    IF k > Len(all) THEN m ELSE DedupFrom(all, k + 1, MapSet(m, all[k]))

\* Array.from(uniq.values())
Dedup(all) == DedupFrom(all, 1, <<>>)

\* decodeGameResult on a log that parses
Row(l) == [blockNumber |-> l.blk, txHash |-> l.tx, gameNumber |-> l.v]

\* mutant: the first log that does not parse ends the decoding
Decode_StopAtBad(lg) ==
    LET bad == {n \in 1..Len(lg) : ~lg[n].ok}
        stop == IF bad = {} THEN Len(lg)
                ELSE (CHOOSE n \in bad : \A m \in bad : n <= m) - 1
    IN  [n \in 1..stop |-> Row(lg[n])]

\* logs.map(decodeGameResult).filter(Boolean)
Decode(lg) ==
    LET Parses(l) == l.ok
        kept == SelectSeq(lg, Parses)
    IN  [n \in 1..Len(kept) |-> Row(kept[n])]

\* the place of row r in the sorted list q: behind every row whose block
\* number is not larger
RECURSIVE InsertByBlock(_, _)
InsertByBlock(q, r) ==
    IF q = <<>> THEN <<r>>
    ELSE IF q[Len(q)].blockNumber <= r.blockNumber THEN Append(q, r)
    ELSE Append(InsertByBlock(SubSeq(q, 1, Len(q) - 1), r), q[Len(q)])

RECURSIVE SortFrom(_, _, _)
SortFrom(q, k, acc) ==
    IF k > Len(q) THEN acc ELSE SortFrom(q, k + 1, InsertByBlock(acc, q[k]))

\* decoded.sort((a, b) => a.blockNumber - b.blockNumber), a stable sort
SortByBlock(q) == SortFrom(q, 1, <<>>)

\* mutant: only the first element of a response is collected
Collect_HeadOnly(items, k) ==
    IF k > Len(items) THEN <<>>
    ELSE IF items[k].hasResult THEN items[k].result ELSE <<>>

\* for (const resp of j) allLogs = allLogs.concat(resp.result || [])
RECURSIVE Collect(_, _)
Collect(items, k) ==
    IF k > Len(items) THEN <<>>
    ELSE (IF items[k].hasResult THEN items[k].result ELSE <<>>) \o Collect(items, k + 1)

(***************************************************************************)
(* fetchLogsBatched, and the same loop in handler; handleRun, run          *)
(***************************************************************************)
\* rpc(rpcUrl, batch) is entered for the chunk at index k of rs
CallBatch(k, rs) ==
    /\ fi' = k
    /\ sent' = Append(sent, Chunk(rs, k, batchSize))
    /\ attempts' = DefaultAttempts
    /\ i' = 0
    /\ lastErr' = NoErr
    /\ rpcResult' = NoBody
    /\ nRequests' = 0
    /\ lastOutcome' = NoOutcome
    /\ body' = BatchRequest(Chunk(rs, k, batchSize))
    /\ posted' = NoRequest
    /\ baseDelay' = (IF variant = "browser" THEN BaseDelayBrowser ELSE BaseDelayRoute)
    /\ delays' = <<>>
    /\ pc' = "rpcAttempt"
    /\ UNCHANGED thrown

\* the run ends with the error e: the catch and finally of handleRun, the
\* catch of handler
Fail(e) ==
    IF variant = "browser"
    THEN /\ error' = e
         /\ loading' = FALSE
         /\ pc' = "done"
         /\ UNCHANGED <<rows, response>>
    ELSE /\ response' = ErrorResponse(e)
         /\ pc' = "responded"
         /\ UNCHANGED <<rows, error, loading>>

\* all batches are in: deduplicate, decode, (handleRun) sort, and hand the
\* rows over
Finish(all) ==
    LET lg == Dedup(all)
        decoded == Decode(lg)
    IN  /\ logs' = lg
        /\ IF variant = "browser"
           THEN /\ rows' = SortByBlock(decoded)
                /\ loading' = FALSE
                /\ pc' = "done"
                /\ UNCHANGED <<error, response>>
           ELSE /\ response' = OkResponse(decoded)
                /\ pc' = "responded"
                /\ UNCHANGED <<rows, error, loading>>

\* mutant: the next batch goes out with the logs of this one left behind
Accumulate_Nothing(all, items) == all

\* for (const resp of j) allLogs = allLogs.concat(resp.result || []), for
\* the whole response
Accumulate(all, items) == all \o Collect(items, 1)

\* mutant: the loop steps one span too far (i += batchSize + 1)
NextIndex_Skip(k, n) == k + n + 1

\* i += batchSize
NextIndex(k, n) == k + n

\* mutant: done is not capped by the number of spans
ProgressDone_Uncapped(k, n, total) == k + n

\* Math.min(i + batchSize, ranges.length)
ProgressDone(k, n, total) == Min(k + n, total)

\* mutant: the pause is taken after the last batch too
PauseAfter_Always(k, n, total, d) == d > 0

\* if (i + batchSize < ranges.length && delayMs > 0)
PauseAfter(k, n, total, d) == k + n < total /\ d > 0

\* buildRanges; the first batch call
FetchStart ==
    /\ pc = "fetch"
    /\ ranges' = buildRanges(fromBlock, toBlock)
    /\ allLogs' = <<>>
    /\ IF Len(ranges') > 0
       THEN CallBatch(0, ranges') /\ UNCHANGED <<logs, uiVars>>
       ELSE Finish(<<>>) /\ UNCHANGED <<fi, sent, rpcVars>>
    /\ UNCHANGED <<runVars, statsVars, fromBlock, toBlock, resolverVars, chainVars, variant, batchSize,
                   delayMs, nSleeps, progress, reports>>

CurrentBatch == Chunk(ranges, fi, batchSize)

FetchAttempt ==
    /\ sent # <<>>
    /\ RpcAttemptWith(FetchOutcomes(CurrentBatch))
    /\ nSloppy' = IF lastOutcome' \in SloppyOutcomes(CurrentBatch) THEN nSloppy + 1 ELSE nSloppy
    /\ UNCHANGED <<runVars, statsVars, rangeVars, resolverVars, chainLogs, endpoint, fetchVars, uiVars>>

\* the backoff of a batch call; its length plays no part in the fetch, the
\* jitter is the smallest one
FetchBackoff ==
    /\ sent # <<>>
    /\ RpcSleepWith({0})
    /\ UNCHANGED <<runVars, statsVars, rangeVars, resolverVars, pipelineVars>>

\* mutant: a failed batch is skipped and the loop goes on
FetchBatchThrown_Skip ==
    /\ pc = "rpcThrown"
    /\ sent # <<>>
    /\ IF fi + batchSize < Len(ranges)
       THEN CallBatch(fi + batchSize, ranges) /\ UNCHANGED <<logs, uiVars>>
       ELSE Finish(allLogs) /\ UNCHANGED <<fi, sent, rpcVars>>
    /\ UNCHANGED <<runVars, statsVars, rangeVars, resolverVars, chainVars, variant, batchSize, delayMs,
                   allLogs, nSleeps, progress, reports>>

\* the batch call threw: nothing catches it before handleRun / handler
FetchBatchThrown ==
    /\ pc = "rpcThrown"
    /\ sent # <<>>
    /\ Fail(thrown)
    /\ UNCHANGED <<runVars, statsVars, rangeVars, resolverVars, rpcVars, chainVars, fetchVars>>

\* the batch call returned j: collect, report progress, then pause, call the
\* next batch, or finish
FetchBatchReturned ==
    /\ pc = "rpcReturned"
    /\ sent # <<>>
    /\ IF rpcResult.t # "array"
       THEN /\ Fail("TypeError: j is not iterable")
            /\ UNCHANGED <<rpcVars, fetchVars>>
       ELSE LET all == Accumulate(allLogs, rpcResult.items)
                report == [done |-> ProgressDone(fi, batchSize, Len(ranges)),
                           total |-> Len(ranges)]
            IN  /\ allLogs' = all
                /\ IF variant = "browser"
                   THEN progress' = report /\ reports' = Append(reports, report)
                   ELSE UNCHANGED <<progress, reports>>
                /\ IF variant = "browser" /\ PauseAfter(fi, batchSize, Len(ranges), delayMs)
                   THEN /\ pc' = "batchSleep"
                        /\ UNCHANGED <<fi, sent, rpcVars, logs, uiVars>>
                   ELSE IF NextIndex(fi, batchSize) < Len(ranges)
                        THEN CallBatch(NextIndex(fi, batchSize), ranges) /\ UNCHANGED <<logs, uiVars>>
                        ELSE Finish(all) /\ UNCHANGED <<fi, sent, rpcVars>>
                /\ UNCHANGED <<variant, batchSize, delayMs, nSleeps>>
    /\ UNCHANGED <<runVars, statsVars, rangeVars, resolverVars, chainVars>>

\* await sleep(delayMs); i += batchSize; the loop test
FetchBatchSleep ==
    /\ pc = "batchSleep"
    /\ nSleeps' = nSleeps + 1
    /\ IF NextIndex(fi, batchSize) < Len(ranges)
       THEN CallBatch(NextIndex(fi, batchSize), ranges) /\ UNCHANGED <<logs, uiVars>>
       ELSE Finish(allLogs) /\ UNCHANGED <<fi, sent, rpcVars>>
    /\ UNCHANGED <<runVars, statsVars, rangeVars, resolverVars, chainVars, variant, batchSize, delayMs,
                   allLogs, progress, reports>>

\* run, the page of the API route: the response is in
RunReceive ==
    /\ pc = "responded"
    /\ IF ~response.ok
       THEN error' = response.error /\ UNCHANGED rows
       ELSE rows' = response.rows /\ UNCHANGED error
    /\ loading' = FALSE
    /\ pc' = "done"
    /\ UNCHANGED <<runVars, statsVars, rangeVars, resolverVars, rpcVars, chainVars, fetchVars, response>>

FetchBatchSizes == {1, 2, MaxBatchSize}

\* the state of a run once fromBlock <= toBlock are resolved: rows and
\* error cleared, loading set
InitFetch ==
    /\ pc = "fetch"
    /\ variant \in {"browser", "api"}
    /\ fromBlock \in 0..MaxFetchFrom
    /\ toBlock \in fromBlock..MaxFetchBlock
    /\ ranges = <<>>
    /\ batchSize \in (IF variant = "browser" THEN FetchBatchSizes ELSE {BATCH})
    /\ delayMs \in (IF variant = "browser" THEN {0, DefaultDelayMs} ELSE {0})
    /\ chainLogs = LogUniverse
    /\ endpoint \in (IF toBlock <= MaxSloppyBlock THEN {"faithful", "sloppy"} ELSE {"faithful"})
    /\ nSloppy = 0
    /\ fi = 0
    /\ allLogs = <<>>
    /\ sent = <<>>
    /\ nSleeps = 0
    /\ progress = NoProgress
    /\ logs = <<>>
    /\ rows = <<>>
    /\ error = NoErr
    /\ loading = TRUE
    /\ response = NoResponse
    /\ reports = <<>>
    /\ ResolverIdle
    /\ RpcIdle
    /\ RunIdle
    /\ StatsIdle

NextFetch ==
    \/ FetchStart
    \/ FetchAttempt
    \/ FetchBackoff
    \/ FetchBatchThrown
    \/ FetchBatchReturned
    \/ FetchBatchSleep
    \/ RunReceive

SpecFetch == InitFetch /\ [][NextFetch]_vars

\* the run came to its end without an error
Succeeded ==
    \/ pc = "done" /\ error = NoErr
    \/ pc = "responded" /\ response.ok

\* the rows the run produced, as handed over by handleRun or by handler
FinalRows == IF variant = "browser" THEN rows ELSE response.rows

\* the identity of a log: (transactionHash, logIndex)
SameKey(a, b) == a.tx = b.tx /\ a.idx = b.idx

Occurrences(q, l) == {n \in 1..Len(q) : q[n] = l}

(***************************************************************************)
(* C6: the deduplicated logs hold exactly one entry for every distinct     *)
(* (transactionHash, logIndex) key of the concatenated batch responses and *)
(* no two entries with the same key; the same raw log fed twice yields     *)
(* exactly one match record.                                               *)
(***************************************************************************)
C6_DedupOnePerKey ==
    Succeeded =>
        /\ \A n \in 1..Len(allLogs) :
               Cardinality({m \in 1..Len(logs) : SameKey(logs[m], allLogs[n])}) = 1
        /\ \A m \in 1..Len(logs) : \E n \in 1..Len(allLogs) : allLogs[n] = logs[m]
        /\ \A n \in 1..Len(allLogs) :
               LET l == allLogs[n]
               IN  (/\ Cardinality(Occurrences(allLogs, l)) >= 2
                    /\ l.ok
                    /\ \A k \in 1..Len(allLogs) : SameKey(allLogs[k], l) => allLogs[k] = l)
                   => Cardinality(Occurrences(FinalRows, Row(l))) = 1

\* the same log came in twice, next to a log of the same transaction with
\* another logIndex
C6_Witness ==
    /\ Succeeded
    /\ \E n \in 1..Len(allLogs) :
           /\ Cardinality(Occurrences(allLogs, allLogs[n])) >= 2
           /\ allLogs[n].ok
           /\ \E k \in 1..Len(allLogs) :
                  allLogs[k].tx = allLogs[n].tx /\ allLogs[k].idx # allLogs[n].idx
    /\ Len(logs) < Len(allLogs)
    /\ Len(FinalRows) >= 3

(***************************************************************************)
(* C7: against an endpoint that on each attempt either fails or answers    *)
(* every request of the batch with the logs of its span, a fetch that      *)
(* completes holds every log with a block number in [fromBlock, toBlock]   *)
(* exactly once by key, however many attempts failed and were retried.     *)
(***************************************************************************)
C7_EveryLogInRangeOnce ==
    (Succeeded /\ endpoint = "faithful") =>
        \A l \in chainLogs :
            (fromBlock <= l.blk /\ l.blk <= toBlock) =>
                /\ Cardinality({m \in 1..Len(logs) : SameKey(logs[m], l)}) = 1
                /\ \E m \in 1..Len(logs) : logs[m] = l

\* several batches, the last of them answered after failed attempts, and
\* every log of the chain in range
C7_Witness ==
    /\ Succeeded
    /\ endpoint = "faithful"
    /\ Len(sent) >= 3
    /\ i >= 2
    /\ lastErr # NoErr
    /\ \A l \in chainLogs : fromBlock <= l.blk /\ l.blk <= toBlock
    /\ Len(logs) = Cardinality(chainLogs)

(***************************************************************************)
(* C8: when a batch call fails after its retries, the whole fetch fails:   *)
(* no later batch is issued, the caller gets the error, and no rows of     *)
(* earlier batches are returned or shown (the route answers ok:false       *)
(* without rows; the page ends with rows empty and error set).             *)
(***************************************************************************)
C8_BatchFailureAbortsRun ==
    thrown # NoErr =>
        /\ pc \in {"rpcThrown", "responded", "done"}
        /\ nRequests = DefaultAttempts
        /\ rows = <<>>
        /\ (variant = "api" /\ pc # "rpcThrown") =>
               /\ response.sent
               /\ ~response.ok
               /\ ~response.hasRows
               /\ response.rows = <<>>
               /\ response.error = thrown
        /\ (variant = "browser") => ~response.sent
        /\ pc = "done" => (error = thrown /\ ~loading)

\* the second or a later batch failed after logs had come in, with spans
\* still to fetch
C8_Witness ==
    /\ thrown # NoErr
    /\ pc = "done"
    /\ Len(sent) >= 2
    /\ allLogs # <<>>
    /\ fi + batchSize < Len(ranges)
    /\ rows = <<>>
    /\ error = thrown

\* the same on the route: its second batch failed
C8_ApiReached ==
    /\ thrown # NoErr
    /\ pc = "done"
    /\ variant = "api"
    /\ Len(sent) >= 2
    /\ allLogs # <<>>

\* the smallest number of batches of n spans that hold c spans
CeilDiv(c, n) == (c + n - 1) \div n

\* the spans of the batch calls q, one after the other
RECURSIVE Flatten(_)
Flatten(q) == IF q = <<>> THEN <<>> ELSE Head(q) \o Flatten(Tail(q))

(***************************************************************************)
(* C15: the spans are grouped into batches of batchSize consecutive spans  *)
(* (only the last batch may be smaller); each batch is one RPC call whose  *)
(* body holds one eth_getLogs request per span of the batch; a fetch that  *)
(* completes has issued ceil(spanCount / batchSize) batch calls, and every *)
(* span was requested in exactly one of them.                              *)
(***************************************************************************)
C15_BatchesPartitionSpans ==
    /\ \A k \in 1..Len(sent) :
           /\ sent[k] = SubSeq(ranges, (k - 1) * batchSize + 1,
                               Min(k * batchSize, Len(ranges)))
           /\ Len(sent[k]) >= 1
           /\ Len(sent[k]) <= batchSize
           /\ k < Len(sent) => Len(sent[k]) = batchSize
    /\ pc \in {"rpcAttempt", "rpcSleep", "rpcReturned"} =>
           /\ body = BatchRequest(sent[Len(sent)])
           /\ Len(body.items) = Len(sent[Len(sent)])
    /\ Succeeded =>
           /\ Len(sent) = CeilDiv(Len(ranges), batchSize)
           /\ Flatten(sent) = ranges
           /\ \A n \in 1..Len(ranges) :
                  Cardinality({k \in 1..Len(sent) :
                                   \E m \in 1..Len(sent[k]) : sent[k][m] = ranges[n]}) = 1

\* several full batches of more than one span and a smaller last one
C15_Witness ==
    /\ Succeeded
    /\ batchSize >= 2
    /\ Len(sent) >= 3
    /\ Len(sent[1]) = batchSize
    /\ Len(sent[Len(sent)]) < batchSize

(***************************************************************************)
(* C16: the batches are issued one after the other in ascending span       *)
(* order: the call in flight is the one for the batch issued last, and a   *)
(* batch is issued only when the call for the batch before it has returned *)
(* its response and the logs of that response have been accumulated.       *)
(***************************************************************************)
C16_BatchesSequential ==
    /\ [](pc \in {"rpcAttempt", "rpcSleep"} => body = BatchRequest(sent[Len(sent)]))
    /\ [][(Len(sent') # Len(sent) /\ sent # <<>>) =>
              LET got == Collect(rpcResult.items, 1)
                  prev == sent[Len(sent)]
              IN  /\ sent' = Append(sent, sent'[Len(sent')])
                  /\ pc \in {"rpcReturned", "batchSleep"}
                  /\ pc' = "rpcAttempt"
                  /\ rpcResult.t = "array"
                  /\ lastOutcome.body = rpcResult
                  /\ posted = BatchRequest(prev)
                  /\ Len(allLogs') >= Len(got)
                  /\ SubSeq(allLogs', Len(allLogs') - Len(got) + 1, Len(allLogs')) = got
                  /\ sent'[Len(sent')][1].from > prev[Len(prev)].to]_vars

\* the second batch is being retried, the logs of the first are in
C16_Witness ==
    /\ pc = "rpcSleep"
    /\ Len(sent) = 2
    /\ i >= 1
    /\ allLogs # <<>>
    /\ body = BatchRequest(sent[2])

(***************************************************************************)
(* C17: the fetcher pauses between two successive batches exactly when     *)
(* the inter-batch delay is greater than 0, once per pair of successive    *)
(* batches, and never after the last batch; for every batch size of the    *)
(* browser fetcher and for the route's fetch loop, which has no delay.     *)
(***************************************************************************)
C17_PauseBetweenBatchesOnly ==
    /\ nSleeps = IF delayMs > 0 /\ Len(sent) >= 1 THEN Len(sent) - 1 ELSE 0
    /\ pc = "batchSleep" =>
           /\ delayMs > 0
           /\ Len(sent) * batchSize < Len(ranges)
    /\ Succeeded =>
           nSleeps = IF delayMs > 0 THEN CeilDiv(Len(ranges), batchSize) - 1 ELSE 0

\* three batches with a pause after the first and after the second
C17_Witness ==
    /\ Succeeded
    /\ delayMs > 0
    /\ Len(sent) = 3
    /\ nSleeps = 2

\* the other side: several batches and no pause
C17_NoDelayReached ==
    /\ Succeeded
    /\ delayMs = 0
    /\ Len(sent) >= 2
    /\ nSleeps = 0

\* the spans of the first k batch calls
RECURSIVE SpansDone(_, _)
SpansDone(q, k) == IF k = 0 THEN 0 ELSE SpansDone(q, k - 1) + Len(q[k])

(***************************************************************************)
(* C18: the browser fetcher reports progress exactly once after each batch *)
(* that completed, as (done, total) with total the number of spans and     *)
(* done the number of spans completed so far; done grows strictly from     *)
(* report to report and never exceeds total, and the last report of a      *)
(* fetch that succeeds has done = total.                                   *)
(***************************************************************************)
C18_ProgressPerBatch ==
    variant = "browser" =>
        /\ Len(reports) = IF pc = "batchSleep" \/ Succeeded THEN Len(sent)
                          ELSE IF sent = <<>> THEN 0 ELSE Len(sent) - 1
        /\ \A k \in 1..Len(reports) :
               /\ reports[k].total = Len(ranges)
               /\ reports[k].done = SpansDone(sent, k)
               /\ reports[k].done <= reports[k].total
               /\ k > 1 => reports[k - 1].done < reports[k].done
        /\ reports # <<>> => progress = reports[Len(reports)]
        /\ Succeeded =>
               /\ reports # <<>>
               /\ reports[Len(reports)].done = reports[Len(reports)].total

\* three reports, the last one for a batch smaller than batchSize
C18_Witness ==
    /\ variant = "browser"
    /\ Succeeded
    /\ Len(reports) = 3
    /\ batchSize = 2
    /\ reports[2].done = 4
    /\ reports[3] = [done |-> 5, total |-> 5]

(***************************************************************************)
(* C19: a log that does not decode gives no record and is dropped; the     *)
(* other logs are still decoded and the run does not fail: the records are *)
(* exactly those of the deduplicated logs that decode, one for each.       *)
(***************************************************************************)
C19_UndecodableDropped ==
    /\ Succeeded =>
           /\ Len(FinalRows) = Cardinality({m \in 1..Len(logs) : logs[m].ok})
           /\ \A m \in 1..Len(logs) :
                  logs[m].ok => \E n \in 1..Len(FinalRows) : FinalRows[n] = Row(logs[m])
           /\ \A n \in 1..Len(FinalRows) :
                  \E m \in 1..Len(logs) : logs[m].ok /\ FinalRows[n] = Row(logs[m])
    /\ (pc \in {"done", "responded"} /\ ~Succeeded) =>
           \/ thrown # NoErr
           \/ rpcResult.t = "object"

\* a log that does not decode between logs that do
C19_Witness ==
    /\ Succeeded
    /\ \E m \in 1..Len(logs) :
           /\ ~logs[m].ok
           /\ \E a \in 1..(m - 1) : logs[a].ok
           /\ \E b \in (m + 1)..Len(logs) : logs[b].ok
    /\ Len(FinalRows) = Len(logs) - 1
    /\ Len(FinalRows) >= 3

(***************************************************************************)
(* Specification SpecRun: one run of the pipeline, from the click to the   *)
(* rows or the error on the page: handleRun (browser), and run calling     *)
(* handler (route)                                                         *)
(***************************************************************************)
\* the test that decides between the resolver and the chain's end:
\* `startTs ? ... : ...` in handleRun, `typeof startTs === 'number' &&
\* startTs > 0 ? ... : ...` in handler
Given(v, t) ==
    IF v = "browser" THEN t.present /\ t.ts # 0
    ELSE t.present /\ t.ts > 0

\* the errors a block lookup throws: the one of getBlockByTag, or the last
\* error of its RPC call
LookupErrors == {"Block not found", "RPC HTTP 503"}

\* a row and an error left on the page by an earlier run
StaleRow == [blockNumber |-> 0, txHash |-> "z", gameNumber |-> 0]
StaleStates ==
    {[rows |-> <<>>, error |-> NoErr],
     [rows |-> <<StaleRow>>, error |-> NoErr],
     [rows |-> <<>>, error |-> "stale"]}

\* the dates the user can pick: none, or a day whose epoch lies before,
\* at, or after the epoch and the timestamps of the chain
RunDates == {Undefined} \cup {Epoch(t) : t \in (-1)..(MaxTs + 1)}

\* chains of blocks 0..n with timestamps that never decrease
RunChains ==
    UNION {{c \in [0..n -> 1..MaxTs] : \A a, b \in 0..n : a <= b => c[a] <= c[b]} :
           n \in 0..MaxRunBlock}

InitRun ==
    /\ pc = "idle"
    /\ variant \in {"browser", "api"}
    /\ chainTs \in RunChains
    /\ startTs \in RunDates
    /\ endTs \in RunDates
    /\ batchSize \in (IF variant = "browser" THEN {1, 2} ELSE {BATCH})
    /\ delayMs = (IF variant = "browser" THEN DefaultDelayMs ELSE 0)
    /\ chainLogs = LogUniverse
    /\ endpoint = "faithful"
    /\ nSloppy = 0
    /\ \E st \in StaleStates : rows = st.rows /\ error = st.error
    /\ loading = FALSE
    /\ progress = NoProgress
    /\ response = NoResponse
    /\ fi = 0
    /\ allLogs = <<>>
    /\ sent = <<>>
    /\ nSleeps = 0
    /\ logs = <<>>
    /\ reports = <<>>
    /\ fromBlock = 0
    /\ toBlock = 0
    /\ ranges = <<>>
    /\ stage = "none"
    /\ runEarliest = NoBlock
    /\ runLatest = NoBlock
    /\ searched = {}
    /\ cancelRequested = FALSE
    /\ op = "none"
    /\ targetTs = 0
    /\ earliest = NoBlock
    /\ latest = NoBlock
    /\ lo = 0
    /\ hi = 0
    /\ result = -1
    /\ nProbes = 0
    /\ lookups = <<>>
    /\ RpcIdle
    /\ StatsIdle

\* mutant: the click leaves the rows of the run before on the page
RunStart_KeepsRows ==
    /\ pc = "idle"
    /\ ~loading
    /\ error' = NoErr
    /\ rows' = rows
    /\ loading' = TRUE
    /\ progress' = NoProgress
    /\ stage' = "lookups"
    /\ pc' = "runEarliest"
    /\ UNCHANGED <<rangeVars, resolverVars, rpcVars, chainVars, variant, batchSize, delayMs,
                   fi, allLogs, sent, nSleeps, logs, reports, response,
                   startTs, endTs, runEarliest, runLatest, searched, cancelRequested, statsVars>>

\* the click: setError(null); setRows([]); setLoading(true); (handleRun)
\* setProgress({done:0,total:0})
RunStart ==
    /\ pc = "idle"
    /\ ~loading
    /\ error' = NoErr
    /\ rows' = <<>>
    /\ loading' = TRUE
    /\ progress' = NoProgress
    /\ stage' = "lookups"
    /\ pc' = "runEarliest"
    /\ UNCHANGED <<rangeVars, resolverVars, rpcVars, chainVars, variant, batchSize, delayMs,
                   fi, allLogs, sent, nSleeps, logs, reports, response,
                   startTs, endTs, runEarliest, runLatest, searched, cancelRequested, statsVars>>

\* const earliest = await getEarliest(rpc)
RunGetEarliest ==
    /\ pc = "runEarliest"
    /\ \E out \in LookupOutcomes :
         /\ lookups' = Append(lookups, Lookup("earliest", -1, out))
         /\ IF out = "block"
            THEN /\ runEarliest' = BlockAt(EarliestNum)
                 /\ pc' = "runLatest"
                 /\ UNCHANGED uiVars
            ELSE /\ \E e \in LookupErrors : Fail(e)
                 /\ UNCHANGED runEarliest
    /\ UNCHANGED <<rangeVars, chainTs, op, targetTs, earliest, latest, lo, hi, result, nProbes,
                   rpcVars, chainVars, fetchVars,
                   startTs, endTs, stage, runLatest, searched, cancelRequested, statsVars>>

\* const latest = await getLatest(rpc)
RunGetLatest ==
    /\ pc = "runLatest"
    /\ \E out \in LookupOutcomes :
         /\ lookups' = Append(lookups, Lookup("latest", -1, out))
         /\ IF out = "block"
            THEN /\ runLatest' = BlockAt(LatestNum)
                 /\ pc' = "resolveFrom"
                 /\ UNCHANGED uiVars
            ELSE /\ \E e \in LookupErrors : Fail(e)
                 /\ UNCHANGED runLatest
    /\ UNCHANGED <<rangeVars, chainTs, op, targetTs, earliest, latest, lo, hi, result, nProbes,
                   rpcVars, chainVars, fetchVars,
                   startTs, endTs, stage, runEarliest, searched, cancelRequested, statsVars>>

\* the call of findBlockAtOrAfter / findBlockAtOrBefore
CallResolver(o, t, st) ==
    /\ op' = o
    /\ targetTs' = t
    /\ stage' = st
    /\ searched' = searched \cup {o}
    /\ earliest' = NoBlock
    /\ latest' = NoBlock
    /\ lo' = 0
    /\ hi' = 0
    /\ result' = -1
    /\ nProbes' = 0
    /\ pc' = "getEarliest"
    /\ UNCHANGED lookups

\* const fromBlock = startTs ? await findBlockAtOrAfter(rpc, startTs)
\*                           : earliest.num
RunResolveFrom ==
    /\ pc = "resolveFrom"
    /\ IF Given(variant, startTs)
       THEN /\ CallResolver("after", startTs.ts, "from")
            /\ UNCHANGED fromBlock
       ELSE /\ fromBlock' = runEarliest.num
            /\ pc' = "resolveTo"
            /\ UNCHANGED <<op, targetTs, stage, searched, earliest, latest, lo, hi,
                           result, nProbes, lookups>>
    /\ UNCHANGED <<toBlock, ranges, chainTs, rpcVars, pipelineVars,
                   startTs, endTs, runEarliest, runLatest, cancelRequested, statsVars>>

\* mutant: the run goes to the range test with toBlock still unresolved
RunFromResolved_SkipTo ==
    /\ pc = "resolved"
    /\ stage = "from"
    /\ fromBlock' = result
    /\ pc' = "guard"
    /\ UNCHANGED <<toBlock, ranges, resolverVars, rpcVars, pipelineVars, runVars, statsVars>>

\* the resolver returned: fromBlock is its result
RunFromResolved ==
    /\ pc = "resolved"
    /\ stage = "from"
    /\ fromBlock' = result
    /\ pc' = "resolveTo"
    /\ UNCHANGED <<toBlock, ranges, resolverVars, rpcVars, pipelineVars, runVars, statsVars>>

\* const toBlock = endTs ? await findBlockAtOrBefore(rpc, endTs) : latest.num
RunResolveTo ==
    /\ pc = "resolveTo"
    /\ IF Given(variant, endTs)
       THEN /\ CallResolver("before", endTs.ts, "to")
            /\ UNCHANGED toBlock
       ELSE /\ toBlock' = runLatest.num
            /\ pc' = "guard"
            /\ UNCHANGED <<op, targetTs, stage, searched, earliest, latest, lo, hi,
                           result, nProbes, lookups>>
    /\ UNCHANGED <<fromBlock, ranges, chainTs, rpcVars, pipelineVars,
                   startTs, endTs, runEarliest, runLatest, cancelRequested, statsVars>>

\* the resolver returned: toBlock is its result
RunToResolved ==
    /\ pc = "resolved"
    /\ stage = "to"
    /\ toBlock' = result
    /\ pc' = "guard"
    /\ UNCHANGED <<fromBlock, ranges, resolverVars, rpcVars, pipelineVars, runVars, statsVars>>

\* mutant: a resolver that threw is answered with the chain's end, and the
\* run goes on
RunResolverThrown_GoOn ==
    /\ pc = "resolveThrown"
    /\ stage \in {"from", "to"}
    /\ IF stage = "from"
       THEN fromBlock' = runEarliest.num /\ pc' = "resolveTo" /\ UNCHANGED toBlock
       ELSE toBlock' = runLatest.num /\ pc' = "guard" /\ UNCHANGED fromBlock
    /\ UNCHANGED <<ranges, resolverVars, rpcVars, pipelineVars, runVars, statsVars>>

\* a lookup of the resolver threw: the run's catch
RunResolverThrown ==
    /\ pc = "resolveThrown"
    /\ stage \in {"from", "to"}
    /\ \E e \in LookupErrors : Fail(e)
    /\ UNCHANGED <<rangeVars, resolverVars, rpcVars, chainVars, fetchVars, runVars, statsVars>>

\* mutant: the route answers an inverted range with an error
EmptyRangeResponse_Error ==
    [sent |-> TRUE, status |-> 200, ok |-> FALSE, hasRows |-> FALSE, rows |-> <<>>,
     error |-> "Invalid range"]

\* res.status(200).json({ ok: true, rows: [] })
EmptyRangeResponse == OkResponse(<<>>)

\* if (toBlock < fromBlock): handleRun sets rows [] and progress {1, 1}
\* and returns; handler answers { ok: true, rows: [] }
RunGuard ==
    /\ pc = "guard"
    /\ stage' = "fetch"
    /\ IF toBlock < fromBlock
       THEN IF variant = "browser"
            THEN /\ rows' = <<>>
                 /\ progress' = [done |-> 1, total |-> 1]
                 /\ loading' = FALSE
                 /\ pc' = "done"
                 /\ UNCHANGED <<error, response>>
            ELSE /\ response' = EmptyRangeResponse
                 /\ pc' = "responded"
                 /\ UNCHANGED <<rows, error, loading, progress>>
       ELSE /\ pc' = "fetch"
            /\ UNCHANGED <<uiVars, progress>>
    /\ UNCHANGED <<rangeVars, resolverVars, rpcVars, chainVars, variant, batchSize, delayMs,
                   fi, allLogs, sent, nSleeps, logs, reports,
                   startTs, endTs, runEarliest, runLatest, searched, cancelRequested, statsVars>>

\* the caller asks a run in progress to stop: the user leaves the page, the
\* client of the route hangs up. handleRun, run and handler take no signal
\* and read no flag, so nothing but the request itself is recorded
RequestCancel ==
    /\ pc \notin {"idle", "done"}
    /\ ~cancelRequested
    /\ cancelRequested' = TRUE
    /\ UNCHANGED <<pc, rangeVars, resolverVars, rpcVars, pipelineVars,
                   startTs, endTs, stage, runEarliest, runLatest, searched, statsVars>>

NextRun ==
    \/ RunStart
    \/ RequestCancel
    \/ RunGetEarliest
    \/ RunGetLatest
    \/ RunResolveFrom
    \/ ResolveGetEarliest
    \/ ResolveGetLatest
    \/ ResolveProbe
    \/ RunFromResolved
    \/ RunResolveTo
    \/ RunToResolved
    \/ RunResolverThrown
    \/ RunGuard
    \/ FetchStart
    \/ FetchAttempt
    \/ FetchBackoff
    \/ FetchBatchThrown
    \/ FetchBatchReturned
    \/ FetchBatchSleep
    \/ RunReceive

SpecRun == InitRun /\ [][NextRun]_vars

\* both ends of the block range are resolved and the test of the range is
\* behind the run
RangeResolved == stage = "fetch"

(***************************************************************************)
(* C12: when the resolved toBlock is smaller than the resolved fromBlock,  *)
(* no eth_getLogs request is issued and the run ends with zero records as  *)
(* a success: the route answers ok:true with rows [], and the page ends    *)
(* with rows empty, error null and loading false.                          *)
(***************************************************************************)
C12_InvertedRangeIsEmptySuccess ==
    (RangeResolved /\ toBlock < fromBlock) =>
        /\ sent = <<>>
        /\ posted = NoRequest
        /\ nRequests = 0
        /\ pc \in {"done", "responded"}
        /\ variant = "api" =>
               /\ response.sent
               /\ response.ok
               /\ response.hasRows
               /\ response.rows = <<>>
               /\ response.error = NoErr
        /\ variant = "browser" => ~response.sent
        /\ pc = "done" => (rows = <<>> /\ error = NoErr /\ ~loading)

\* the page after the route answered an inverted range found by both
\* binary searches
C12_Witness ==
    /\ RangeResolved
    /\ toBlock < fromBlock
    /\ variant = "api"
    /\ pc = "done"
    /\ searched = {"after", "before"}
    /\ rows = <<>>
    /\ error = NoErr
    /\ ~loading

\* the same in the browser app
C12_BrowserReached ==
    /\ RangeResolved
    /\ toBlock < fromBlock
    /\ variant = "browser"
    /\ pc = "done"
    /\ progress = [done |-> 1, total |-> 1]

(***************************************************************************)
(* C13: for a start timestamp strictly greater than the end timestamp      *)
(* (both given), the resolved toBlock is smaller than the resolved         *)
(* fromBlock, no log is requested and the run ends with zero records and   *)
(* no error, on every chain and wherever the two timestamps lie relative   *)
(* to the earliest and the latest block.                                   *)
(***************************************************************************)
C13_StartAfterEndIsEmpty ==
    (/\ RangeResolved
     /\ startTs.present
     /\ endTs.present
     /\ startTs.ts > endTs.ts) =>
        /\ toBlock < fromBlock
        /\ sent = <<>>
        /\ pc = "done" => (rows = <<>> /\ error = NoErr)

\* the way C13 fails: both timestamps at or behind the latest block, the
\* range is the latest block and its records are shown
C13_BothClampedToLatest ==
    /\ pc = "done"
    /\ variant = "browser"
    /\ startTs.ts > endTs.ts
    /\ endTs.ts >= runLatest.ts
    /\ endTs.ts > 0
    /\ fromBlock = runLatest.num
    /\ toBlock = runLatest.num
    /\ rows # <<>>

(***************************************************************************)
(* C14: without a start date fromBlock is earliest.number and no binary    *)
(* search runs for it; without an end date toBlock is latest.number and no *)
(* binary search runs for it; a date that is given is always resolved      *)
(* through its binary search.                                              *)
(***************************************************************************)
C14_AbsentDatesSkipSearch ==
    RangeResolved =>
        /\ ~startTs.present => (fromBlock = runEarliest.num /\ "after" \notin searched)
        /\ ~endTs.present => (toBlock = runLatest.num /\ "before" \notin searched)
        /\ startTs.present => "after" \in searched
        /\ endTs.present => "before" \in searched

\* the way C14 fails: the route takes an end date before 1970 for no end
\* date and runs to the latest block
C14_EndDateTakenForAbsent ==
    /\ RangeResolved
    /\ variant = "api"
    /\ endTs.present
    /\ endTs.ts < 0
    /\ "before" \notin searched
    /\ toBlock = runLatest.num
    /\ runLatest.num > runEarliest.num

(***************************************************************************)
(* Specification SpecStats: the aggregator, const stats = useMemo(...)     *)
(* over the match records and the player name                              *)
(***************************************************************************)
\* strings are sequences of characters; the alphabet has a letter in both
\* cases, a second letter, and two kinds of whitespace
Chars == {"a", "A", "b", " ", "\t"}

IsSpace(c) == c \in {" ", "\t"}

\* String.prototype.toLowerCase, one character
LowerChar(c) == IF c = "A" THEN "a" ELSE c

toLowerCase(str) == [n \in 1..Len(str) |-> LowerChar(str[n])]

RECURSIVE trimStart(_)
trimStart(str) ==
    IF str # <<>> /\ IsSpace(Head(str)) THEN trimStart(Tail(str)) ELSE str

RECURSIVE trimEnd(_)
trimEnd(str) ==
    IF str # <<>> /\ IsSpace(str[Len(str)])
    THEN trimEnd(SubSeq(str, 1, Len(str) - 1))
    ELSE str

\* mutant: only the leading whitespace is removed (trimStart for trim)
trim_StartOnly(str) == trimStart(str)

\* String.prototype.trim
trim(str) == trimEnd(trimStart(str))

\* x.trim().toLowerCase()
Norm(str) == toLowerCase(trim(str))

\* mutant: the division is made for every total; 0 / 0 is NaN, written as
\* the fraction <<0, 0>>
Winrate_Unguarded(wins, total) == <<wins, total>>

\* total ? (wins / total) : 0, as the fraction <<numerator, denominator>>
Winrate(wins, total) == IF total # 0 THEN <<wins, total>> ELSE <<0, 1>>

\* mutant: a record the player won is not counted as a loss too
Stats_LossUnlessWon(rs, pl) ==
    LET p == Norm(pl)
        wins == Cardinality({n \in 1..Len(rs) : Norm(rs[n].winningPlayer) = p})
        losses == Cardinality({n \in 1..Len(rs) : /\ Norm(rs[n].losingPlayer) = p
                                                  /\ Norm(rs[n].winningPlayer) # p})
        total == wins + losses
    IN  [wins |-> wins, losses |-> losses, total |-> total,
         winrate |-> Winrate(wins, total)]

\* the body of the useMemo callback
Stats(rs, pl) ==
    LET p == Norm(pl)
        wins == Cardinality({n \in 1..Len(rs) : Norm(rs[n].winningPlayer) = p})
        losses == Cardinality({n \in 1..Len(rs) : Norm(rs[n].losingPlayer) = p})
        total == wins + losses
    IN  [wins |-> wins, losses |-> losses, total |-> total,
         winrate |-> Winrate(wins, total)]

\* mutant: only the records the player won are kept
Matches_WinsOnly(r, p) == Norm(r.winningPlayer) = p

\* the predicate of rows.filter(...), p the normalized player name
Matches(r, p) == Norm(r.winningPlayer) = p \/ Norm(r.losingPlayer) = p

\* mutant: the opponent is taken from the wrong side
Opponent_Swapped(r, p) ==
    IF Norm(r.winningPlayer) = p THEN r.winningPlayer ELSE r.losingPlayer

\* opponent: ... === p ? r.losingPlayer : r.winningPlayer
Opponent(r, p) ==
    IF Norm(r.winningPlayer) = p THEN r.losingPlayer ELSE r.winningPlayer

\* the callback of .map(...): ({ ...r, result, opponent })
ViewRow(r, p) ==
    [blockNumber |-> r.blockNumber,
     winningPlayer |-> r.winningPlayer,
     losingPlayer |-> r.losingPlayer,
     result |-> IF Norm(r.winningPlayer) = p THEN "W" ELSE "L",
     opponent |-> Opponent(r, p)]

\* the body of the second useMemo callback: rows.filter(...).map(...)
Filtered(rs, pl) ==
    LET p == Norm(pl)
        kept == SelectSeq(rs, LAMBDA r : Matches(r, p))
    IN  [n \in 1..Len(kept) |-> ViewRow(kept[n], p)]

\* a match record, as far as the aggregator reads it
StatRow(n, w, l) == [blockNumber |-> n, winningPlayer |-> w, losingPlayer |-> l]

\* the names on the records: with and without padding, in both cases
RowNames == {<<"A", " ">>, <<"\t", "a">>, <<"b">>}

\* the record lists: any winner and loser on each record; the records are
\* told apart by their block numbers, which ascend as the run sorted them
StatRowLists ==
    UNION {{[n \in 1..k |-> StatRow(n, f[n][1], f[n][2])] :
                f \in [1..k -> RowNames \X RowNames]} : k \in 0..MaxStatRows}

\* what the user can type into the player field
StatPlayers == UNION {[1..n -> Chars] : n \in 0..MaxNameLen}

InitStats ==
    /\ pc = "render"
    /\ rows \in StatRowLists
    /\ player \in StatPlayers
    /\ stats = NoStats
    /\ filtered = <<>>
    /\ uiBatchSize = Num(2)
    /\ uiDelayMs = Num(DefaultDelayMs)
    /\ error = NoErr
    /\ loading = FALSE
    /\ response = NoResponse
    /\ fromBlock = 0
    /\ toBlock = 0
    /\ ranges = <<>>
    /\ ResolverIdle
    /\ RpcIdle
    /\ FetchIdle
    /\ RunIdle

\* a render with new rows or a new player: both memos are recomputed
Render ==
    /\ pc = "render"
    /\ stats' = Stats(rows, player)
    /\ filtered' = Filtered(rows, player)
    /\ pc' = "rendered"
    /\ UNCHANGED <<rangeVars, resolverVars, rpcVars, pipelineVars, runVars, player, uiBatchSize, uiDelayMs>>

NextStats == Render

SpecStats == InitStats /\ [][NextStats]_vars

\* the part of a name between its first and its last character that is not
\* whitespace
Core(str) ==
    LET inked == {n \in 1..Len(str) : ~IsSpace(str[n])}
    IN  IF inked = {} THEN <<>>
        ELSE SubSeq(str, CHOOSE n \in inked : \A m \in inked : n <= m,
                         CHOOSE n \in inked : \A m \in inked : n >= m)

\* the same character up to its case
SameLetter(c, d) == c = d \/ {c, d} = {"a", "A"}

\* two names that differ only in case or in surrounding whitespace
SameName(x, y) ==
    LET cx == Core(x)
        cy == Core(y)
    IN  /\ Len(cx) = Len(cy)
        /\ \A n \in 1..Len(cx) : SameLetter(cx[n], cy[n])

\* the names a player name is compared with
OtherNames == UNION {[1..n -> Chars] : n \in 0..MaxOtherLen}

(***************************************************************************)
(* C20: wins is the number of records whose winningPlayer equals the       *)
(* player name once both are trimmed and lower-cased, losses the same for  *)
(* losingPlayer; so two player names that differ only in case or in        *)
(* surrounding whitespace give identical stats.                            *)
(***************************************************************************)
C20_StatsIgnoreCaseAndPadding ==
    pc = "rendered" =>
        /\ stats.wins =
               Cardinality({n \in 1..Len(rows) : SameName(rows[n].winningPlayer, player)})
        /\ stats.losses =
               Cardinality({n \in 1..Len(rows) : SameName(rows[n].losingPlayer, player)})
        /\ \A q \in OtherNames : SameName(q, player) => Stats(rows, q) = stats

\* a padded upper-case player name, and records that spell the winner and
\* the loser in other ways
C20_Witness ==
    /\ pc = "rendered"
    /\ player = <<" ", "A", "\t">>
    /\ Len(rows) = 2
    /\ rows[1].winningPlayer = <<"A", " ">>
    /\ rows[1].losingPlayer = <<"b">>
    /\ rows[2].winningPlayer = <<"b">>
    /\ rows[2].losingPlayer = <<"\t", "a">>
    /\ stats.wins = 1
    /\ stats.losses = 1

\* the records of rs on which the name pl stands as winner or as loser, up
\* to case and surrounding whitespace
Played(rs, pl) ==
    {n \in 1..Len(rs) : SameName(rs[n].winningPlayer, pl) \/ SameName(rs[n].losingPlayer, pl)}

\* the list rs without its n-th record
Without(rs, n) == SubSeq(rs, 1, n - 1) \o SubSeq(rs, n + 1, Len(rs))

(***************************************************************************)
(* C21: the player's match view holds exactly the records on which the     *)
(* normalized player name equals the normalized winningPlayer or           *)
(* losingPlayer, in the relative order they have in the full record list;  *)
(* a record on which the player neither won nor lost is in neither the     *)
(* view nor the wins and losses counts.                                    *)
(***************************************************************************)
C21_ViewIsThePlayersRecords ==
    pc = "rendered" =>
        LET mine == Played(rows, player)
        IN  /\ Len(filtered) = Cardinality(mine)
            /\ \A k \in 1..Len(filtered) :
                   /\ filtered[k].blockNumber \in mine
                   /\ Cardinality({n \in mine : n <= filtered[k].blockNumber}) = k
            /\ \A n \in (1..Len(rows)) \ mine :
                   /\ \A k \in 1..Len(filtered) : filtered[k].blockNumber # n
                   /\ Stats(Without(rows, n), player) = stats

\* a record of two other players before a record of the player
C21_Witness ==
    /\ pc = "rendered"
    /\ Len(rows) = 2
    /\ Played(rows, player) = {2}
    /\ Len(filtered) = 1
    /\ filtered[1].blockNumber = 2
    /\ stats.total = 1

\* two records of the player, in the view in the order of the list
C21_BothKept ==
    /\ pc = "rendered"
    /\ Len(filtered) = 2
    /\ filtered[1].blockNumber = 1
    /\ filtered[2].blockNumber = 2

(***************************************************************************)
(* C22: total is wins + losses; the winrate is 0 when total is 0, and no   *)
(* division is made then; otherwise it is wins / total, with               *)
(* 0 <= wins <= total.                                                     *)
(***************************************************************************)
C22_WinrateDefined ==
    pc = "rendered" =>
        /\ stats.total = stats.wins + stats.losses
        /\ stats.wins >= 0
        /\ stats.wins <= stats.total
        /\ stats.winrate[2] # 0
        /\ stats.total = 0 => stats.winrate[1] = 0
        /\ stats.total # 0 => stats.winrate = <<stats.wins, stats.total>>

\* records on the page, none of them of the player
C22_Witness ==
    /\ pc = "rendered"
    /\ Len(rows) = 2
    /\ stats.total = 0
    /\ stats.winrate = <<0, 1>>

\* a winrate of one half
C22_HalfReached ==
    /\ pc = "rendered"
    /\ stats.winrate = <<1, 2>>

(***************************************************************************)
(* C23: every record of the view has result 'W' if the normalized player   *)
(* name equals its normalized winningPlayer and 'L' otherwise; its         *)
(* opponent is its losingPlayer when the result is 'W' and its             *)
(* winningPlayer when it is 'L'; the other fields are those of the record  *)
(* it was made from.                                                       *)
(***************************************************************************)
C23_ResultAndOpponent ==
    pc = "rendered" =>
        \A k \in 1..Len(filtered) :
            LET v == filtered[k]
                r == rows[v.blockNumber]
            IN  /\ v.blockNumber \in 1..Len(rows)
                /\ v.result = IF SameName(v.winningPlayer, player) THEN "W" ELSE "L"
                /\ v.result = "W" => v.opponent = v.losingPlayer
                /\ v.result = "L" => v.opponent = v.winningPlayer
                /\ DOMAIN v = DOMAIN r \cup {"result", "opponent"}
                /\ \A fld \in DOMAIN r : v[fld] = r[fld]

\* a loss and a win, the player's name written differently on each
C23_Witness ==
    /\ pc = "rendered"
    /\ player = <<"a">>
    /\ Len(filtered) = 2
    /\ filtered[1].result = "L"
    /\ filtered[1].losingPlayer = <<"\t", "a">>
    /\ filtered[1].opponent = <<"b">>
    /\ filtered[2].result = "W"
    /\ filtered[2].winningPlayer = <<"A", " ">>
    /\ filtered[2].opponent = <<"b">>

\* the place of row r in the list q
IndexIn(q, r) == CHOOSE n \in 1..Len(q) : q[n] = r

(***************************************************************************)
(* C24: the match records of a run that succeeds (the rows the route       *)
(* returns, the rows handleRun sets) are ordered by ascending blockNumber, *)
(* records of one blockNumber staying in the order they were fetched in,   *)
(* whatever order the endpoint hands the logs out in.                      *)
(***************************************************************************)
C24_RowsAscendingByBlock ==
    Succeeded =>
        \A a, b \in 1..Len(FinalRows) :
            a < b =>
                /\ FinalRows[a].blockNumber <= FinalRows[b].blockNumber
                /\ FinalRows[a].blockNumber = FinalRows[b].blockNumber =>
                       IndexIn(Decode(logs), FinalRows[a]) < IndexIn(Decode(logs), FinalRows[b])

\* the way C24 fails: the route returns the records in the order the
\* endpoint handed the logs out in, a later block before an earlier one
C24_RouteRowsDescend ==
    /\ Succeeded
    /\ variant = "api"
    /\ pc = "done"
    /\ \E a, b \in 1..Len(rows) : a < b /\ rows[a].blockNumber > rows[b].blockNumber

\* handleRun sorts: its rows ascend for every answer of the endpoint
C24_BrowserRowsAscend ==
    (Succeeded /\ variant = "browser") =>
        \A a, b \in 1..Len(rows) :
            a < b =>
                /\ rows[a].blockNumber <= rows[b].blockNumber
                /\ rows[a].blockNumber = rows[b].blockNumber =>
                       IndexIn(Decode(logs), rows[a]) < IndexIn(Decode(logs), rows[b])

\* handleRun sorted records the endpoint handed out newest first
C24_BrowserSortedReached ==
    /\ Succeeded
    /\ variant = "browser"
    /\ \E a, b \in 1..Len(logs) : a < b /\ logs[a].blk > logs[b].blk /\ logs[a].ok /\ logs[b].ok

\* both ends of the block range have been resolved, each by its binary
\* search if its date is given and from the chain's end if not, and the
\* spans run from the one to the other
BothEndsResolved ==
    /\ stage = "fetch"
    /\ runEarliest # NoBlock
    /\ runLatest # NoBlock
    /\ Given(variant, startTs) => "after" \in searched
    /\ ~Given(variant, startTs) => fromBlock = runEarliest.num
    /\ Given(variant, endTs) => "before" \in searched
    /\ ~Given(variant, endTs) => toBlock = runLatest.num
    /\ fromBlock <= toBlock
    /\ ranges # <<>>
    /\ ranges[1].from = fromBlock
    /\ ranges[Len(ranges)].to = toBlock

(***************************************************************************)
(* C25: no eth_getLogs request is issued before fromBlock and toBlock are  *)
(* both resolved, and no log is decoded before the response of the last    *)
(* batch is in and the deduplication has run over all the logs collected.  *)
(***************************************************************************)
C25_ResolveFetchDecodeInOrder ==
    /\ []((sent # <<>> \/ nRequests > 0) => BothEndsResolved)
    /\ [](pc \notin {"idle", "done", "responded"} =>
              (logs = <<>> /\ rows = <<>> /\ ~response.sent))
    /\ [][(\/ logs' # logs
           \/ variant = "browser" /\ rows' # <<>> /\ rows' # rows
           \/ response'.sent /\ ~response.sent /\ response'.ok /\ sent # <<>>) =>
              /\ pc \in {"rpcReturned", "batchSleep"}
              /\ Flatten(sent) = ranges
              /\ rpcResult.t = "array"
              /\ posted = BatchRequest(sent[Len(sent)])
              /\ \A n \in 1..Len(allLogs') :
                     Cardinality({m \in 1..Len(logs') : Key(logs'[m]) = Key(allLogs'[n])}) = 1
              /\ \A m \in 1..Len(logs') : \E n \in 1..Len(allLogs') : allLogs'[n] = logs'[m]
              /\ \A n \in 1..Len(FinalRows') :
                     \E m \in 1..Len(logs') : FinalRows'[n] = Row(logs'[m])]_vars

\* a run with both binary searches and two batches has shown its records
C25_Witness ==
    /\ pc = "done"
    /\ Succeeded
    /\ searched = {"after", "before"}
    /\ Len(sent) = 2
    /\ Len(logs) >= 3
    /\ rows # <<>>

\* a block lookup of the run failed: its RPC call ran out of attempts, or
\* the endpoint had no block
LookupFailed == \E n \in 1..Len(lookups) : ~lookups[n].ok

(***************************************************************************)
(* C26: when a block lookup fails (earliest, latest, or a probe of a       *)
(* binary search), the run is aborted: no block lookup and no eth_getLogs  *)
(* request follow it in that run, and the caller gets one error message    *)
(* and no rows.                                                            *)
(***************************************************************************)
C26_LookupFailureAbortsRun ==
    LookupFailed =>
        /\ \A n \in 1..Len(lookups) : ~lookups[n].ok => n = Len(lookups)
        /\ sent = <<>>
        /\ nRequests = 0
        /\ posted = NoRequest
        /\ pc \in {"resolveThrown", "responded", "done"}
        /\ rows = <<>>
        /\ pc = "done" => (error \in LookupErrors /\ ~loading)
        /\ variant = "browser" => ~response.sent
        /\ (variant = "api" /\ pc \in {"responded", "done"}) =>
               /\ response.sent
               /\ ~response.ok
               /\ ~response.hasRows
               /\ response.rows = <<>>
               /\ response.error \in LookupErrors
               /\ pc = "done" => error = response.error

\* the second probe of the second binary search failed, the page shows the
\* error the route answered
C26_Witness ==
    /\ LookupFailed
    /\ pc = "done"
    /\ variant = "api"
    /\ stage = "to"
    /\ nProbes = 2
    /\ lookups[Len(lookups)].tag = "number"
    /\ error = "RPC HTTP 503"
    /\ rows = <<>>

\* the failure of the very first lookup, in the browser
C26_FirstLookupFailed ==
    /\ LookupFailed
    /\ Len(lookups) = 1
    /\ variant = "browser"
    /\ pc = "done"
    /\ error = "Block not found"

\* the resolver with its steps taken: every lookup it awaits settles, with
\* a block or with an error, and the function goes on from there
SpecResolverFair == SpecResolver /\ WF_vars(NextResolver)

\* the smallest k with 2^k >= n
RECURSIVE CeilLog2(_)
CeilLog2(n) == IF n <= 1 THEN 0 ELSE 1 + CeilLog2((n + 1) \div 2)

\* the lookups made so far for the tag "earliest" or "latest", or by number
LookupsOf(tag) == Cardinality({n \in 1..Len(lookups) : lookups[n].tag = tag})

(***************************************************************************)
(* C27: a resolver call fetches the earliest and the latest block once     *)
(* each and then ends after at most ceil(log2(latest.number -              *)
(* earliest.number + 1)) fetches of a block by number, one per iteration   *)
(* of the loop, whatever timestamps the blocks carry (monotonic or not);   *)
(* hi - lo shrinks with every iteration and the block number returned      *)
(* lies in [earliest.number, latest.number].                               *)
(***************************************************************************)
C27_ResolverTerminatesInLogSteps ==
    /\ [](/\ LookupsOf("earliest") <= 1
          /\ LookupsOf("latest") <= 1
          /\ LookupsOf("number") = nProbes
          /\ Len(lookups) = LookupsOf("earliest") + LookupsOf("latest") + nProbes)
    /\ [](latest # NoBlock =>
              /\ LookupsOf("earliest") = 1
              /\ LookupsOf("latest") = 1
              /\ nProbes <= CeilLog2(latest.num - earliest.num + 1))
    /\ [](pc = "resolved" =>
              (result >= earliest.num /\ result <= latest.num))
    /\ [][pc = "probe" =>
              /\ nProbes' = nProbes + 1
              /\ pc' \in {"probe", "resolved", "resolveThrown"}
              /\ pc' # "resolveThrown" => hi' - lo' < hi - lo
              /\ pc' = "probe" => lo' < hi']_vars
    /\ <>(pc \in {"resolved", "resolveThrown"})

\* a search that took all the fetches the bound allows, on a chain whose
\* timestamps go down
C27_Witness ==
    /\ pc = "resolved"
    /\ latest.num - earliest.num + 1 = 5
    /\ nProbes = 3
    /\ \E n \in DOMAIN chainTs : n + 1 \in DOMAIN chainTs /\ chainTs[n] > chainTs[n + 1]

(***************************************************************************)
(* C28: the pipeline can be cancelled between any two network waits: once  *)
(* the caller has asked the run to stop, no new batch and no new block     *)
(* lookup is issued, and the run ends with the outcome 'canceled' instead  *)
(* of handing out rows.                                                    *)
(***************************************************************************)
C28_CancelStopsTheRun ==
    /\ [][cancelRequested => (lookups' = lookups /\ sent' = sent)]_vars
    /\ []((cancelRequested /\ pc = "done") => (error = "canceled" /\ rows = <<>>))
    /\ []((cancelRequested /\ response.sent) =>
              (~response.ok /\ response.error = "canceled"))

\* the way C28 fails: asked to stop, the run went on to its batch calls and
\* shows its records
C28_RunGoesOnAfterCancel ==
    /\ cancelRequested
    /\ pc = "done"
    /\ Len(lookups) >= 2
    /\ Len(sent) >= 1
    /\ error = NoErr
    /\ rows # <<>>

\* the sum of the field f over the sleeps ds
RECURSIVE SumOf(_, _)
SumOf(ds, f) == IF ds = <<>> THEN 0 ELSE Head(ds)[f] + SumOf(Tail(ds), f)

\* what is common to the claim as stated and as amended: one sleep after
\* every attempt that failed, the last one included, and a deterministic
\* part baseDelay * 1.6^k that grows with k
SleepPerFailure ==
    /\ Len(delays) = i
    /\ pc = "rpcThrown" => Len(delays) = attempts
    /\ \A k \in 1..Len(delays) :
           /\ delays[k].det = Backoff(baseDelay, k - 1)
           /\ k = 1 => delays[k].det = baseDelay * 100
           /\ k > 1 => (delays[k].det * 10 = delays[k - 1].det * 16
                        /\ delays[k].det > delays[k - 1].det)

(***************************************************************************)
(* C29 as stated: after every failed attempt i (from 0), the last one      *)
(* included, the client waits baseDelay * 1.6^i plus a jitter in [0, 120)  *)
(* milliseconds before it goes on; a call that runs out of attempts has    *)
(* waited at least the sum of baseDelay * 1.6^i over its attempts, and the *)
(* deterministic part grows strictly with i.                               *)
(***************************************************************************)
C29_DelayIsBackoffPlusJitter ==
    /\ SleepPerFailure
    /\ \A k \in 1..Len(delays) :
           /\ delays[k].ms * 100 - delays[k].det >= 0
           /\ delays[k].ms * 100 - delays[k].det < JitterSpan * 100
    /\ pc = "rpcThrown" => SumOf(delays, "ms") * 100 >= SumOf(delays, "det")

(***************************************************************************)
(* C29 amended: the wait after failed attempt i is baseDelay * 1.6^i plus  *)
(* a jitter in [0, 120) ms rounded to whole milliseconds, so it lies       *)
(* within half a millisecond of that sum and can be shorter than           *)
(* baseDelay * 1.6^i; there is one wait after every failed attempt, the    *)
(* last one included; a call that runs out of attempts has waited at       *)
(* least the sum of baseDelay * 1.6^i less half a millisecond per attempt  *)
(* (at least the sum itself for the 5 attempts and the base delays 200 and *)
(* 350 of the code), and the deterministic part grows strictly with i.     *)
(***************************************************************************)
C29_DelayIsRoundedBackoffPlusJitter ==
    /\ SleepPerFailure
    /\ \A k \in 1..Len(delays) :
           LET d == delays[k]
               exact == d.det + d.jitter
           IN  /\ d.jitter >= 0
               /\ d.jitter < JitterSpan * 100
               /\ d.ms * 100 - exact > -50
               /\ d.ms * 100 - exact <= 50
    /\ pc = "rpcThrown" =>
           /\ SumOf(delays, "ms") * 100 >= SumOf(delays, "det") - 50 * attempts
           /\ attempts = DefaultAttempts => SumOf(delays, "ms") * 100 >= SumOf(delays, "det")

\* a call of the route that ran out of its 5 attempts; its fourth wait,
\* 200 * 1.6^3 = 819.2 ms with the smallest jitter, was 819 ms
C29_Witness ==
    /\ pc = "rpcThrown"
    /\ attempts = DefaultAttempts
    /\ baseDelay = BaseDelayRoute
    /\ Len(delays) = DefaultAttempts
    /\ delays[4].det = 81920
    /\ delays[4].jitter = 0
    /\ delays[4].ms = 819

\* the other side: the largest jitter on 1310.72 ms gives 1431 ms, more
\* than 120 ms above the deterministic part
C29_RoundedUpReached ==
    /\ pc = "rpcThrown"
    /\ baseDelay = BaseDelayRoute
    /\ Len(delays) = DefaultAttempts
    /\ delays[5].det = 131072
    /\ delays[5].ms = 1431

\* the records this run decoded
RunRecords == {Row(logs[n]) : n \in {m \in 1..Len(logs) : logs[m].ok}}

(***************************************************************************)
(* C30: a run takes nothing over from the run before it: it clears rows    *)
(* and error before its first network call, so the rows shown after a run  *)
(* are records of that run only, and rows that are not empty together with *)
(* an error never show.                                                    *)
(***************************************************************************)
C30_RunStartsClean ==
    /\ ~(rows # <<>> /\ error # NoErr)
    /\ pc \notin {"idle", "done"} => (rows = <<>> /\ error = NoErr)
    /\ (lookups # <<>> \/ sent # <<>> \/ nRequests > 0) =>
           /\ pc # "idle"
           /\ error # "stale"
           /\ \A n \in 1..Len(rows) : rows[n] # StaleRow
    /\ pc = "done" =>
           /\ \A n \in 1..Len(rows) : rows[n] \in RunRecords
           /\ error # NoErr => error \in LookupErrors \cup {thrown}

\* a run that shows its records, as many as it decoded
C30_Witness ==
    /\ pc = "done"
    /\ error = NoErr
    /\ Len(rows) >= 3
    /\ Len(rows) = Cardinality(RunRecords)
    /\ \A n \in 1..Len(rows) : rows[n] # StaleRow

\* a run that failed shows its error and no rows
C30_FailedRunReached ==
    /\ pc = "done"
    /\ sent # <<>>
    /\ error = "RPC HTTP 503"
    /\ rows = <<>>

\* the records of rs on which the name pl stands as winner and as loser
SelfPlayed(rs, pl) ==
    {n \in 1..Len(rs) : SameName(rs[n].winningPlayer, pl) /\ SameName(rs[n].losingPlayer, pl)}

(***************************************************************************)
(* C37 as stated: for any records and any player name, stats.total is the  *)
(* number of entries of the player's match view, also when a record has    *)
(* the same normalized name as winningPlayer and as losingPlayer.          *)
(***************************************************************************)
C37_TotalIsViewSize ==
    pc = "rendered" => stats.total = Len(filtered)

(***************************************************************************)
(* C37 amended: stats.total is the number of entries of the player's match *)
(* view plus the number of records that have the player's normalized name  *)
(* as winningPlayer and as losingPlayer: such a record is one entry of the *)
(* view and counts as a win and as a loss. Without such records            *)
(* stats.total is the number of entries of the view.                       *)
(***************************************************************************)
C37_TotalIsViewSizePlusSelfPlayed ==
    pc = "rendered" =>
        /\ stats.total = Len(filtered) + Cardinality(SelfPlayed(rows, player))
        /\ SelfPlayed(rows, player) = {} => stats.total = Len(filtered)
        /\ \A n \in SelfPlayed(rows, player) :
               \E k \in 1..Len(filtered) :
                   /\ filtered[k].blockNumber = n
                   /\ filtered[k].result = "W"
                   /\ \A m \in 1..Len(filtered) : filtered[m].blockNumber = n => m = k

\* a record with the player on both sides, spelled in two ways, next to a
\* plain win: two entries, a total of three
C37_Witness ==
    /\ pc = "rendered"
    /\ player = <<"a">>
    /\ Len(rows) = 2
    /\ rows[1].winningPlayer = <<"A", " ">>
    /\ rows[1].losingPlayer = <<"\t", "a">>
    /\ rows[2].winningPlayer = <<"\t", "a">>
    /\ rows[2].losingPlayer = <<"b">>
    /\ Len(filtered) = 2
    /\ stats.total = 3


\* the first and the last place of the key of log l in q
FirstOf(q, l) == CHOOSE n \in 1..Len(q) :
                     SameKey(q[n], l) /\ \A k \in 1..Len(q) : SameKey(q[k], l) => n <= k
LastOf(q, l) == CHOOSE n \in 1..Len(q) :
                    SameKey(q[n], l) /\ \A k \in 1..Len(q) : SameKey(q[k], l) => k <= n

(***************************************************************************)
(* C38: the deduplication keeps, for each key, the content of the last     *)
(* occurrence at the position of the first one: every returned log is the  *)
(* last collected log of its key, the returned logs stand in the order in  *)
(* which their keys first appeared among the collected logs, and           *)
(* deduplicating the returned logs again changes nothing.                  *)
(***************************************************************************)
C38_DedupLastContentFirstPlace ==
    Succeeded =>
        /\ \A m \in 1..Len(logs) :
               /\ \E n \in 1..Len(allLogs) : SameKey(allLogs[n], logs[m])
               /\ logs[m] = allLogs[LastOf(allLogs, logs[m])]
        /\ \A m1, m2 \in 1..Len(logs) :
               m1 < m2 => FirstOf(allLogs, logs[m1]) < FirstOf(allLogs, logs[m2])
        /\ Dedup(logs) = logs

\* a key came in twice with different content, and another key first came
\* in between the two
C38_Witness ==
    /\ Succeeded
    /\ \E a, b, c \in 1..Len(allLogs) :
           /\ a < b /\ b < c
           /\ SameKey(allLogs[a], allLogs[c]) /\ allLogs[a] # allLogs[c]
           /\ ~SameKey(allLogs[a], allLogs[b])
           /\ FirstOf(allLogs, allLogs[a]) = a
           /\ FirstOf(allLogs, allLogs[b]) = b
           /\ LastOf(allLogs, allLogs[c]) = c
           /\ logs[1] = allLogs[c]
           /\ logs[2] = allLogs[b]


\* the logs of the spans rs of the chain, span after span
RECURSIVE LogsOfSpans(_)
LogsOfSpans(rs) ==
    IF rs = <<>> THEN <<>> ELSE SpanLogs(Head(rs)) \o LogsOfSpans(Tail(rs))

(***************************************************************************)
(* C34: against an endpoint that answers every request with the logs of    *)
(* its span, the deduplicated logs a completed fetch returns for fromBlock *)
(* and toBlock are the logs of the spans of [fromBlock, toBlock] in span   *)
(* order, whatever the batch size in 1..8 and the pause between batches:   *)
(* the batching changes how the requests are grouped, never the result.    *)
(***************************************************************************)
C34_BatchingDoesNotChangeLogs ==
    (Succeeded /\ endpoint = "faithful") =>
        /\ batchSize \in 1..MaxBatchSize
        /\ delayMs >= 0
        /\ logs = Dedup(LogsOfSpans(buildRanges(fromBlock, toBlock)))

\* five spans or more fetched one by one with pauses, with logs in more
\* than one span
C34_Witness ==
    /\ Succeeded
    /\ endpoint = "faithful"
    /\ variant = "browser"
    /\ batchSize = 1
    /\ delayMs > 0
    /\ Len(ranges) >= 5
    /\ Len(sent) = Len(ranges)
    /\ Len(logs) >= 3

\* the same spans fetched two by two without a pause
C34_PairsReached ==
    /\ Succeeded
    /\ endpoint = "faithful"
    /\ variant = "browser"
    /\ batchSize = 2
    /\ delayMs = 0
    /\ Len(ranges) >= 5
    /\ Len(sent) * 2 >= Len(ranges)
    /\ Len(sent) < Len(ranges)
    /\ Len(logs) >= 3


\* the response j to the requests of batch leaves a span without an answer:
\* it has fewer elements than the batch has requests, or an element
\* without a result
Incomplete(j, batch) ==
    /\ j.t = "array"
    /\ \/ Len(j.items) < Len(batch)
       \/ \E k \in 1..Len(j.items) : ~j.items[k].hasResult

\* the run has ended with an error
Failed ==
    \/ pc = "done" /\ error # NoErr
    \/ pc = "responded" /\ ~response.ok

(***************************************************************************)
(* C33: a batch response that the retrying client returned and that has    *)
(* fewer elements than the batch had requests, or an element without a     *)
(* result array, makes the fetch fail: the next step of the loop ends the  *)
(* run with an error instead of collecting what is there and going on.     *)
(***************************************************************************)
C33_IncompleteAnswerFailsTheFetch ==
    [][(pc = "rpcReturned" /\ sent # <<>> /\ Incomplete(rpcResult, CurrentBatch)) => Failed']_vars

\* the run reported success, and a log of the chain in [fromBlock, toBlock]
\* is in none of the returned rows: the span it is in was left unanswered
C33_SpanSilentlyOmitted ==
    /\ Succeeded
    /\ endpoint = "sloppy"
    /\ \E n \in 1..Len(sent) : \E k \in 1..Len(sent[n]) :
           \E l \in chainLogs :
               /\ InSpan(l, sent[n][k])
               /\ l.ok
               /\ \A m \in 1..Len(logs) : ~SameKey(logs[m], l)
               /\ \A m \in 1..Len(FinalRows) : FinalRows[m].txHash # l.tx


(***************************************************************************)
(* C32: with both dates given and startTs <= endTs on a chain whose        *)
(* timestamps never decrease, every block of a resolved range with         *)
(* fromBlock <= toBlock has its timestamp in [startTs, endTs]; a date      *)
(* range that lies behind the latest block or before the earliest block    *)
(* resolves to toBlock < fromBlock, and no log is requested.               *)
(***************************************************************************)
C32_RangeBlocksWithinDates ==
    (/\ RangeResolved
     /\ startTs.present
     /\ endTs.present
     /\ startTs.ts <= endTs.ts) =>
        /\ \A b \in fromBlock..toBlock :
               startTs.ts <= chainTs[b] /\ chainTs[b] <= endTs.ts
        /\ (startTs.ts > chainTs[LatestNum] \/ endTs.ts < chainTs[EarliestNum]) =>
               (toBlock < fromBlock /\ sent = <<>>)

\* the way C32 fails: both dates behind the latest block, the latest block
\* is fetched and its records are shown
C32_LatestBlockFetched ==
    /\ pc = "done"
    /\ error = NoErr
    /\ startTs.present
    /\ endTs.present
    /\ startTs.ts <= endTs.ts
    /\ startTs.ts > chainTs[LatestNum]
    /\ fromBlock = LatestNum
    /\ toBlock = LatestNum
    /\ sent # <<>>

\* outside the clamps and the dates taken for absent, the blocks of the
\* range do lie within the dates
C32_WithinDatesInsideTheChain ==
    (/\ RangeResolved
     /\ startTs.present
     /\ endTs.present
     /\ startTs.ts <= endTs.ts
     /\ startTs.ts > 0
     /\ startTs.ts <= chainTs[LatestNum]
     /\ endTs.ts >= chainTs[EarliestNum]) =>
        \A b \in fromBlock..toBlock :
            startTs.ts <= chainTs[b] /\ chainTs[b] <= endTs.ts


\* what handler has answered is one of the two bodies, with HTTP 200
WellFormedResponse(r) ==
    /\ r.status = 200
    /\ \/ r.ok /\ r.hasRows /\ r.error = NoErr
       \/ ~r.ok /\ ~r.hasRows /\ r.rows = <<>> /\ r.error \notin {NoErr, ""}

(***************************************************************************)
(* C35: the API handler answers every request exactly once: it has         *)
(* answered when, and only when, it has come to its end (by the empty      *)
(* range, by the rows, or by an error thrown anywhere on the way), what it *)
(* sent is never changed afterwards, and the answer is HTTP 200 with       *)
(* either ok:true and rows, or ok:false and an error message that is not   *)
(* empty, never both and never neither.                                    *)
(***************************************************************************)
C35_OneWellFormedResponse ==
    /\ [](variant = "api" =>
             /\ response.sent <=> pc \in {"responded", "done"}
             /\ response.sent => WellFormedResponse(response))
    /\ [][(variant = "api" /\ response.sent) => response' = response]_vars

\* a batch call failed on an error object without a message: ok:false with
\* the message rpc() puts in its place, shown by the page
C35_Witness ==
    /\ variant = "api"
    /\ pc = "done"
    /\ sent # <<>>
    /\ response = ErrorResponse("RPC batch error")
    /\ error = "RPC batch error"
    /\ rows = <<>>

\* the other paths: a lookup failed, the range was empty, rows were found
C35_LookupErrorAnswered ==
    /\ variant = "api"
    /\ pc = "responded"
    /\ response = ErrorResponse("Block not found")

C35_EmptyRangeAnswered ==
    /\ variant = "api"
    /\ pc = "responded"
    /\ toBlock < fromBlock
    /\ response = OkResponse(<<>>)

C35_RowsAnswered ==
    /\ variant = "api"
    /\ pc = "responded"
    /\ response.ok
    /\ Len(response.rows) >= 2


(***************************************************************************)
(* The page over several runs: the button starts a run whenever it is not  *)
(* disabled                                                                *)
(***************************************************************************)
\* the locals of a call of handleRun / run, and of the request handler
\* serves for it, before its first await
FreshRun ==
    /\ fromBlock' = 0
    /\ toBlock' = 0
    /\ ranges' = <<>>
    /\ op' = "none"
    /\ targetTs' = 0
    /\ earliest' = NoBlock
    /\ latest' = NoBlock
    /\ lo' = 0
    /\ hi' = 0
    /\ result' = -1
    /\ nProbes' = 0
    /\ lookups' = <<>>
    /\ baseDelay' = 0
    /\ delays' = <<>>
    /\ body' = NoRequest
    /\ posted' = NoRequest
    /\ attempts' = 0
    /\ i' = 0
    /\ lastErr' = NoErr
    /\ rpcResult' = NoBody
    /\ thrown' = NoErr
    /\ nRequests' = 0
    /\ lastOutcome' = NoOutcome
    /\ fi' = 0
    /\ allLogs' = <<>>
    /\ sent' = <<>>
    /\ nSleeps' = 0
    /\ logs' = <<>>
    /\ reports' = <<>>
    /\ response' = NoResponse
    /\ runEarliest' = NoBlock
    /\ runLatest' = NoBlock
    /\ searched' = {}
    /\ cancelRequested' = FALSE

\* mutant: the button is not disabled while a run is going on
ClickRun_NotDisabled ==
    /\ error' = NoErr
    /\ rows' = <<>>
    /\ loading' = TRUE
    /\ progress' = NoProgress
    /\ stage' = "lookups"
    /\ pc' = "runEarliest"
    /\ FreshRun
    /\ UNCHANGED <<chainTs, chainVars, variant, batchSize, delayMs, startTs, endTs, statsVars>>

\* <button onClick={handleRun} disabled={loading}>: a click on the page,
\* before the first run or after one; the call starts with its own locals
ClickRun ==
    /\ ~loading
    /\ error' = NoErr
    /\ rows' = <<>>
    /\ loading' = TRUE
    /\ progress' = NoProgress
    /\ stage' = "lookups"
    /\ pc' = "runEarliest"
    /\ FreshRun
    /\ UNCHANGED <<chainTs, chainVars, variant, batchSize, delayMs, startTs, endTs, statsVars>>

\* the steps of a run once started: each is the settling of an await
RunSteps ==
    \/ RunGetEarliest
    \/ RunGetLatest
    \/ RunResolveFrom
    \/ ResolveGetEarliest
    \/ ResolveGetLatest
    \/ ResolveProbe
    \/ RunFromResolved
    \/ RunResolveTo
    \/ RunToResolved
    \/ RunResolverThrown
    \/ RunGuard
    \/ FetchStart
    \/ FetchAttempt
    \/ FetchBackoff
    \/ FetchBatchThrown
    \/ FetchBatchReturned
    \/ FetchBatchSleep
    \/ RunReceive

NextRuns ==
    \/ ClickRun
    \/ RunSteps

\* the page before the first click, nothing shown yet, on a chain of blocks
\* 0..n, n <= MaxRunBlock, with one block per second up to MaxTs
InitRuns ==
    /\ InitRun
    /\ \E n \in 0..MaxRunBlock : chainTs = [b \in 0..n |-> Min(b + 1, MaxTs)]
    /\ rows = <<>>
    /\ error = NoErr

SpecRuns == InitRuns /\ [][NextRuns]_vars

\* every RPC call returns or fails and every timer fires: a run that is
\* going on does not stay at the same await for ever (it moves on to another
\* await of handleRun / run, of a resolver, of the RPC call or of the batch
\* loop, or to its end); nobody has to click
SpecRunsFair ==
    SpecRuns /\ WF_pc(loading /\ pc' \in
        {"runEarliest", "runLatest", "resolveFrom", "resolveTo", "getEarliest", "getLatest",
         "probe", "resolved", "resolveThrown", "guard", "fetch", "rpcAttempt", "rpcSleep",
         "rpcThrown", "rpcReturned", "batchSleep", "responded", "done"})

(***************************************************************************)
(* C36: loading is true from the start of a run until it ends and false    *)
(* after every outcome (rows, empty range, error); a run starts only while *)
(* loading is false, so that at most one run is in flight; and, every RPC  *)
(* call returning or failing, every run that started comes to              *)
(* loading = false.                                                        *)
(***************************************************************************)
C36_LoadingBracketsTheRun ==
    /\ [](loading <=> pc \notin {"idle", "done"})
    /\ [][(pc' = "runEarliest" /\ lookups' = <<>> /\ nRequests' = 0 /\ pc # "runEarliest")
              => (~loading /\ loading')]_vars
    /\ [][(loading /\ ~loading') => pc' = "done"]_vars
    /\ (loading ~> ~loading)

\* what the fairness of SpecRunsFair rests on: a run that is going on always
\* has a next step, so that no run is left out for being stuck
C36_RunNeverStuck == loading => ENABLED RunSteps

\* a run has ended with the error of a batch call that used up its attempts
C36_Witness ==
    /\ pc = "done"
    /\ ~loading
    /\ thrown # NoErr
    /\ error = ErrorText(thrown)
    /\ nRequests = DefaultAttempts
    /\ sent # <<>>
    /\ ~ENABLED RunSteps
    /\ ENABLED ClickRun

\* the other outcomes: rows, the empty range
C36_RowsShown ==
    /\ pc = "done"
    /\ ~loading
    /\ error = NoErr
    /\ Len(rows) >= 2

C36_EmptyRangeShown ==
    /\ pc = "done"
    /\ ~loading
    /\ error = NoErr
    /\ toBlock < fromBlock
    /\ sent = <<>>


(***************************************************************************)
(* The two number fields of the page, and the arguments handleRun makes of *)
(* them                                                                    *)
(***************************************************************************)
\* the decimal digits and their values
DigitOf ==
    ("0" :> 0) @@ ("1" :> 1) @@ ("2" :> 2) @@ ("3" :> 3) @@ ("4" :> 4) @@
    ("5" :> 5) @@ ("6" :> 6) @@ ("7" :> 7) @@ ("8" :> 8) @@ ("9" :> 9)

\* the value of the digits that t starts with, read after the value acc
RECURSIVE LeadingDigits(_, _)
LeadingDigits(t, acc) ==
    IF t = <<>> \/ Head(t) \notin DOMAIN DigitOf THEN acc
    ELSE LeadingDigits(Tail(t), acc * 10 + DigitOf[Head(t)])

\* parseInt(e.target.value): an optional sign, then the digits up to the
\* first other character; NaN when there is no digit
parseInt(t) ==
    LET neg == t # <<>> /\ Head(t) = "-"
        rest == IF neg THEN Tail(t) ELSE t
    IN  IF rest = <<>> \/ Head(rest) \notin DOMAIN DigitOf THEN NaN
        ELSE Num((IF neg THEN -1 ELSE 1) * LeadingDigits(rest, 0))

\* Number(x) || d for a number x: d when x is NaN or 0
OrElse(x, d) == IF x.nan \/ x.v = 0 THEN d ELSE x.v

\* mutant: the batch size has no floor (Math.min(8, Number(batchSize) || 1))
ClampBatchSize_NoFloor(x) == Min(MaxBatchSize, OrElse(x, 1))

\* Math.max(1, Math.min(8, Number(batchSize) || 1))
ClampBatchSize(x) == Max(1, Min(MaxBatchSize, OrElse(x, 1)))

\* Math.max(0, Number(delayMs) || 0)
ClampDelayMs(x) == Max(0, OrElse(x, 0))

\* onChange={e=>setBatchSize(parseInt(e.target.value))}; the user leaves
\* nothing in the field, zero, a negative number, a number within the
\* limits or one beyond
SetBatchSize ==
    /\ pc = "knobs"
    /\ \E t \in {<<>>, <<"0">>, <<"-", "3">>, <<"1">>, <<"8">>, <<"1", "2">>} :
           uiBatchSize' = parseInt(t)
    /\ UNCHANGED <<pc, rangeVars, resolverVars, rpcVars, pipelineVars, runVars,
                   player, stats, filtered, uiDelayMs>>

\* onChange={e=>setDelayMs(parseInt(e.target.value))}
SetDelayMs ==
    /\ pc = "knobs"
    /\ \E t \in {<<>>, <<"-", "3">>, <<"0">>, <<"1", "2">>} : uiDelayMs' = parseInt(t)
    /\ UNCHANGED <<pc, rangeVars, resolverVars, rpcVars, pipelineVars, runVars,
                   player, stats, filtered, uiBatchSize>>

\* handleRun calls fetchLogsBatched: the arguments batchSize and delayMs
CallFetch ==
    /\ pc = "knobs"
    /\ batchSize' = ClampBatchSize(uiBatchSize)
    /\ delayMs' = ClampDelayMs(uiDelayMs)
    /\ pc' = "fetch"
    /\ UNCHANGED <<rangeVars, resolverVars, rpcVars, chainVars, uiVars, runVars, statsVars,
                   variant, fi, allLogs, sent, nSleeps, progress, logs, reports>>

\* handleRun of the browser app with [fromBlock, toBlock] resolved, about
\* to call fetchLogsBatched; the endpoint answers or fails
InitKnobs ==
    /\ pc = "knobs"
    /\ variant = "browser"
    /\ fromBlock = 0
    /\ toBlock \in {0, MaxKnobBlock}
    /\ ranges = <<>>
    /\ batchSize = 0
    /\ delayMs = 0
    /\ chainLogs = LogUniverse
    /\ endpoint = "faithful"
    /\ nSloppy = 0
    /\ fi = 0
    /\ allLogs = <<>>
    /\ sent = <<>>
    /\ nSleeps = 0
    /\ progress = NoProgress
    /\ logs = <<>>
    /\ rows = <<>>
    /\ error = NoErr
    /\ loading = TRUE
    /\ response = NoResponse
    /\ reports = <<>>
    /\ ResolverIdle
    /\ RpcIdle
    /\ RunIdle
    /\ StatsIdle

NextKnobs ==
    \/ SetBatchSize
    \/ SetDelayMs
    \/ CallFetch
    \/ FetchStart
    \/ FetchAttempt
    \/ FetchBackoff
    \/ FetchBatchThrown
    \/ FetchBatchReturned
    \/ FetchBatchSleep

SpecKnobs == InitKnobs /\ [][NextKnobs]_vars

(***************************************************************************)
(* C31: whatever the batch size field and the delay field hold (NaN from   *)
(* an empty field, 0, a negative number, a number beyond the limit),       *)
(* fetchLogsBatched is called with a batch size in 1..8 and a delay >= 0,  *)
(* a value within the limits being passed as entered; the loop index is    *)
(* the batch size times the number of batches before the current one, so   *)
(* it grows by at least 1 per batch, and the loop makes no more batch      *)
(* calls than there are spans.                                             *)
(***************************************************************************)
C31_KnobsClampedLoopAdvances ==
    pc # "knobs" =>
        /\ batchSize \in 1..MaxBatchSize
        /\ delayMs >= 0
        /\ (~uiBatchSize.nan /\ uiBatchSize.v \in 1..MaxBatchSize) => batchSize = uiBatchSize.v
        /\ (~uiDelayMs.nan /\ uiDelayMs.v >= 0) => delayMs = uiDelayMs.v
        /\ Len(sent) <= Len(ranges)
        /\ sent # <<>> =>
               /\ fi = (Len(sent) - 1) * batchSize
               /\ fi < Len(ranges)
               /\ sent[Len(sent)] # <<>>
        /\ Succeeded => Len(sent) * batchSize >= Len(ranges)

\* an empty batch size field and a negative delay: one span per batch, no
\* pause, as many batches as spans
C31_Witness ==
    /\ Succeeded
    /\ uiBatchSize = NaN
    /\ uiDelayMs = Num(-3)
    /\ batchSize = 1
    /\ delayMs = 0
    /\ nSleeps = 0
    /\ Len(ranges) >= 9
    /\ Len(sent) = Len(ranges)

\* a batch size beyond the limit: batches of 8
C31_OversizedReached ==
    /\ Succeeded
    /\ uiBatchSize = Num(12)
    /\ batchSize = MaxBatchSize
    /\ Len(ranges) >= 9
    /\ Len(sent) = 2

\* a negative batch size and a delay as entered
C31_NegativeReached ==
    /\ Succeeded
    /\ uiBatchSize = Num(-3)
    /\ uiDelayMs = Num(12)
    /\ batchSize = 1
    /\ delayMs = 12
    /\ nSleeps = Len(sent) - 1
    /\ Len(sent) >= 9

====
